---- MODULE Spec2Model ----
(***************************************************************************)
(* A model of the TOON codec of layinded/tone: the encoder                 *)
(* (tone/encode), the decoder (tone/decode), the shared lexical helpers    *)
(* (tone/shared), and the adapters above them (tone/async_support.py,      *)
(* tone/context.py).                                                       *)
(*                                                                         *)
(* A Python str is a sequence of one-character strings.  Indices inside    *)
(* the modelled functions are Python's (0-based): At(s, i) is s[i] and     *)
(* Slice(s, a, b) is s[a:b].                                               *)
(*                                                                         *)
(* A JSON value is a tagged record:                                        *)
(*   [t |-> "null"]  [t |-> "bool", b]  [t |-> "int", i]  [t |-> "float",  *)
(*   f]  [t |-> "str", s]  [t |-> "seq", xs]  [t |-> "map", ps]            *)
(* where ps is the ordered sequence of [k, v] pairs of a dict.  A raised   *)
(* exception is the record [t |-> "error", e |-> <exception type>].        *)
(***************************************************************************)
EXTENDS Integers, Sequences, FiniteSets, TLC

VARIABLES pc, arg, text, res, event_loop, encoder, decoder

vars == <<pc, arg, text, res, event_loop, encoder, decoder>>

(* the state of the adapters above the codec: the event loop of the        *)
(* parallel helpers (tone/async_support.py) and the two context managers   *)
(* (tone/context.py); the codec itself never touches it                    *)
adapters == <<event_loop, encoder, decoder>>

NoAdapters == event_loop = <<>> /\ encoder = <<>> /\ decoder = <<>>

(***************************************************************************)
(* tone/constants.py                                                       *)
(***************************************************************************)
LIST_ITEM_MARKER == <<"-">>
LIST_ITEM_PREFIX == <<"-", " ">>
COMMA == ","
COLON == ":"
SPACE == " "
PIPE == "|"
HASH == "#"
OPEN_BRACKET == "["
CLOSE_BRACKET == "]"
OPEN_BRACE == "{"
CLOSE_BRACE == "}"
NULL_LITERAL == <<"n", "u", "l", "l">>
TRUE_LITERAL == <<"t", "r", "u", "e">>
FALSE_LITERAL == <<"f", "a", "l", "s", "e">>
BACKSLASH == "\\"
DOUBLE_QUOTE == "\""
NEWLINE == "\n"
CARRIAGE_RETURN == "\r"
TAB == "\t"
DEFAULT_DELIMITER == COMMA

(***************************************************************************)
(* Values and exceptions                                                   *)
(***************************************************************************)
VNull == [t |-> "null"]
VBool(b) == [t |-> "bool", b |-> b]
VInt(i) == [t |-> "int", i |-> i]
VFloat(f) == [t |-> "float", f |-> f]
VStr(s) == [t |-> "str", s |-> s]
VArr(xs) == [t |-> "seq", xs |-> xs]
VObj(ps) == [t |-> "map", ps |-> ps]
Raise(e) == [t |-> "error", e |-> e]
IsError(v) == v.t = "error"

(***************************************************************************)
(* Calls.  A function f of the program is called as f_(...), which goes    *)
(* through the one recursive operator Call: TLC expands every operator     *)
(* application in place when it sets up its coverage statistics, and the   *)
(* call graph of the codec expanded in place does not fit in memory.       *)
(* Through Call each function body is expanded once.  f itself, the        *)
(* translation of the function, is defined further down.                   *)
(***************************************************************************)
RECURSIVE Call(_, _)

PyInt_(str) == Call("PyInt", <<str>>)
PyFloat_(str) == Call("PyFloat", <<str>>)
is_numeric_like_(value) == Call("is_numeric_like", <<value>>)
is_numeric_literal_(token) == Call("is_numeric_literal", <<token>>)
escape_string_(value) == Call("escape_string", <<value>>)
unescape_string_(value) == Call("unescape_string", <<value>>)
find_closing_quote_(content, start) == Call("find_closing_quote", <<content, start>>)
find_unquoted_char_(content, char, start) == Call("find_unquoted_char", <<content, char, start>>)
is_safe_unquoted_(value, delimiter) == Call("is_safe_unquoted", <<value, delimiter>>)
encode_string_literal_(value, delimiter) == Call("encode_string_literal", <<value, delimiter>>)
encode_primitive_(value, delimiter) == Call("encode_primitive", <<value, delimiter>>)
is_valid_unquoted_key_(key) == Call("is_valid_unquoted_key", <<key>>)
encode_key_(key) == Call("encode_key", <<key>>)
encode_and_join_primitives_(values, delimiter) == Call("encode_and_join_primitives", <<values, delimiter>>)
format_header_(length, key, fields, delimiter, length_marker) == Call("format_header", <<length, key, fields, delimiter, length_marker>>)
encode_inline_array_line_(values, delimiter, prefix, length_marker) == Call("encode_inline_array_line", <<values, delimiter, prefix, length_marker>>)
is_tabular_array_(rows, header) == Call("is_tabular_array", <<rows, header>>)
extract_tabular_header_(rows) == Call("extract_tabular_header", <<rows>>)
write_tabular_rows_(rows, header, writer, depth, options) == Call("write_tabular_rows", <<rows, header, writer, depth, options>>)
encode_array_of_objects_as_tabular_(prefix, rows, header, writer, depth, options) == Call("encode_array_of_objects_as_tabular", <<prefix, rows, header, writer, depth, options>>)
encode_array_of_arrays_as_list_items_(prefix, values, writer, depth, options) == Call("encode_array_of_arrays_as_list_items", <<prefix, values, writer, depth, options>>)
encode_object_(value, writer, depth, options) == Call("encode_object", <<value, writer, depth, options>>)
encode_key_value_pair_(key, value, writer, depth, options) == Call("encode_key_value_pair", <<key, value, writer, depth, options>>)
encode_array_(key, value, writer, depth, options) == Call("encode_array", <<key, value, writer, depth, options>>)
encode_mixed_array_as_list_items_(prefix, items, writer, depth, options) == Call("encode_mixed_array_as_list_items", <<prefix, items, writer, depth, options>>)
encode_object_as_list_item_(obj, writer, depth, options) == Call("encode_object_as_list_item", <<obj, writer, depth, options>>)
encode_list_item_value_(value, writer, depth, options) == Call("encode_list_item_value", <<value, writer, depth, options>>)
encode_value_(value, options) == Call("encode_value", <<value, options>>)
parse_string_literal_(token) == Call("parse_string_literal", <<token>>)
parse_primitive_token_(token) == Call("parse_primitive_token", <<token>>)
parse_bracket_segment_(seg, default_delimiter) == Call("parse_bracket_segment", <<seg, default_delimiter>>)
parse_delimited_values_(input_str, delimiter) == Call("parse_delimited_values", <<input_str, delimiter>>)
map_row_values_to_primitives_(values) == Call("map_row_values_to_primitives", <<values>>)
parse_array_header_line_(content, default_delimiter) == Call("parse_array_header_line", <<content, default_delimiter>>)
parse_unquoted_key_(content, start) == Call("parse_unquoted_key", <<content, start>>)
parse_quoted_key_(content, start) == Call("parse_quoted_key", <<content, start>>)
parse_key_token_(content, start) == Call("parse_key_token", <<content, start>>)
is_array_header_after_hyphen_(content) == Call("is_array_header_after_hyphen", <<content>>)
is_object_first_field_after_hyphen_(content) == Call("is_object_first_field_after_hyphen", <<content>>)
to_parsed_lines_(source, indent_size, strict) == Call("to_parsed_lines", <<source, indent_size, strict>>)
is_key_value_line_(line) == Call("is_key_value_line", <<line>>)
decode_inline_primitive_array_(header, inline_values, options) == Call("decode_inline_primitive_array", <<header, inline_values, options>>)
decode_object_(cursor, base_depth, options) == Call("decode_object", <<cursor, base_depth, options>>)
decode_key_value_(content, cursor, base_depth, options) == Call("decode_key_value", <<content, cursor, base_depth, options>>)
decode_key_value_pair_(line, cursor, base_depth, options) == Call("decode_key_value_pair", <<line, cursor, base_depth, options>>)
decode_array_from_header_(header, inline_values, cursor, base_depth, options) == Call("decode_array_from_header", <<header, inline_values, cursor, base_depth, options>>)
decode_list_array_(header, cursor, base_depth, options) == Call("decode_list_array", <<header, cursor, base_depth, options>>)
decode_tabular_array_(header, cursor, base_depth, options) == Call("decode_tabular_array", <<header, cursor, base_depth, options>>)
decode_list_item_(cursor, base_depth, active_delimiter, options) == Call("decode_list_item", <<cursor, base_depth, active_delimiter, options>>)
decode_object_from_list_item_(first_line, cursor, base_depth, options) == Call("decode_object_from_list_item", <<first_line, cursor, base_depth, options>>)
decode_value_from_lines_(cursor, options) == Call("decode_value_from_lines", <<cursor, options>>)
normalize_value_(value) == Call("normalize_value", <<value>>)
encode_(value, options) == Call("encode", <<value, options>>)
decode_run_(input_str, options) == Call("decode_run", <<input_str, options>>)
decode_(input_str, options) == Call("decode", <<input_str, options>>)
is_tabular_items_(items) == Call("is_tabular_items", <<items>>)
_encode_tabular_body_(items, options) == Call("_encode_tabular_body", <<items, options>>)
_encode_tabular_chunk_(items, options) == Call("_encode_tabular_chunk", <<items, options>>)
_encode_object_list_item_(writer, obj, depth, options) == Call("_encode_object_list_item", <<writer, obj, depth, options>>)
_encode_array_list_item_(writer, arr, depth, options) == Call("_encode_array_list_item", <<writer, arr, depth, options>>)
_encode_list_body_(items, options) == Call("_encode_list_body", <<items, options>>)
_encode_list_chunk_(items, options, include_header) == Call("_encode_list_chunk", <<items, options, include_header>>)
_encode_items_chunk_(items, options, header_written) == Call("_encode_items_chunk", <<items, options, header_written>>)
_encode_items_body_(items, options, header_written) == Call("_encode_items_body", <<items, options, header_written>>)
FieldLoopBody_(locals, depth, options) == Call("FieldLoopBody", <<locals, depth, options>>)
ListArrayLoopBody_(header, locals, item_depth, options) == Call("ListArrayLoopBody", <<header, locals, item_depth, options>>)
TabularArrayLoopBody_(header, locals, row_depth, options) == Call("TabularArrayLoopBody", <<header, locals, row_depth, options>>)
LoopEntry_(op, source, strict, index) == Call("LoopEntry", <<op, source, strict, index>>)
StreamChunk_(buffer, options, header_written) == Call("StreamChunk", <<buffer, options, header_written>>)

(***************************************************************************)
(* Python str and list built-ins, as far as the codec uses them            *)
(***************************************************************************)
Min(a, b) == IF a < b THEN a ELSE b
Max(a, b) == IF a < b THEN b ELSE a

At(s, i) == s[i + 1]

Slice(s, a, b) == SubSeq(s, a + 1, Min(b, Len(s)))

SliceFrom(s, a) == SubSeq(s, a + 1, Len(s))

Digits == {"0", "1", "2", "3", "4", "5", "6", "7", "8", "9"}

(* str.strip() with no argument strips whitespace *)
Whitespace == {" ", "\t", "\n", "\r", "\f"}

RECURSIVE LStrip(_)
LStrip(s) == IF s # <<>> /\ Head(s) \in Whitespace THEN LStrip(Tail(s)) ELSE s

RECURSIVE RStrip(_)
RStrip(s) ==
  IF s # <<>> /\ s[Len(s)] \in Whitespace THEN RStrip(SubSeq(s, 1, Len(s) - 1)) ELSE s

Strip(s) == RStrip(LStrip(s))

StartsWith(s, p) == Len(s) >= Len(p) /\ SubSeq(s, 1, Len(p)) = p

EndsWith(s, p) == Len(s) >= Len(p) /\ SubSeq(s, Len(s) - Len(p) + 1, Len(s)) = p

Contains(s, c) == \E i \in 1..Len(s) : s[i] = c

(* str.find(c, start) for a one-character c: the first index >= start, or -1 *)
Find(s, c, start) ==
  LET hits == {i \in Max(start, 0)..(Len(s) - 1) : At(s, i) = c}
  IN IF hits = {} THEN -1 ELSE CHOOSE i \in hits : \A j \in hits : i <= j

(* str.replace(c, rep) for a one-character c *)
RECURSIVE Replace(_, _, _)
Replace(s, c, rep) ==
  IF s = <<>> THEN <<>>
  ELSE (IF Head(s) = c THEN rep ELSE <<Head(s)>>) \o Replace(Tail(s), c, rep)

(* sep.join(parts) *)
RECURSIVE Join(_, _)
Join(parts, sep) ==
  IF parts = <<>> THEN <<>>
  ELSE IF Len(parts) = 1 THEN parts[1]
  ELSE parts[1] \o sep \o Join(Tail(parts), sep)

(* str.split(c) for a one-character c *)
RECURSIVE Split(_, _)
Split(s, c) ==
  LET i == Find(s, c, 0)
  IN IF i = -1 THEN <<s>> ELSE <<Slice(s, 0, i)>> \o Split(SliceFrom(s, i + 1), c)

RECURSIVE Repeat(_, _)
Repeat(s, n) == IF n <= 0 THEN <<>> ELSE s \o Repeat(s, n - 1)

DigitSeq == <<"0", "1", "2", "3", "4", "5", "6", "7", "8", "9">>

DigitChar(d) == DigitSeq[d + 1]

DigitVal(c) == CHOOSE d \in 0..9 : DigitChar(d) = c

(* str(i) for an int *)
RECURSIVE NatStr(_)
NatStr(n) == IF n < 10 THEN <<DigitChar(n)>> ELSE NatStr(n \div 10) \o <<DigitChar(n % 10)>>

IntStr(i) == IF i < 0 THEN <<"-">> \o NatStr(-i) ELSE NatStr(i)

(* the end of the longest run of decimal digits that starts at index i *)
RECURSIVE DigitsEnd(_, _)
DigitsEnd(s, i) == IF i < Len(s) /\ At(s, i) \in Digits THEN DigitsEnd(s, i + 1) ELSE i

(* the end of the longest digitpart (digits, single underscores between   *)
(* them) of Python's int() and float() grammar that starts at index i;    *)
(* i itself when there is none                                            *)
RECURSIVE DigitPartEnd(_, _)
DigitPartEnd(s, i) ==
  IF ~(i < Len(s) /\ At(s, i) \in Digits) THEN i
  ELSE IF i + 1 < Len(s) /\ At(s, i + 1) \in Digits THEN DigitPartEnd(s, i + 1)
  ELSE IF i + 2 < Len(s) /\ At(s, i + 1) = "_" /\ At(s, i + 2) \in Digits
       THEN DigitPartEnd(s, i + 2)
  ELSE i + 1

RECURSIVE DigitsValue(_, _)
DigitsValue(s, acc) ==
  IF s = <<>> THEN acc
  ELSE IF Head(s) = "_" THEN DigitsValue(Tail(s), acc)
  ELSE DigitsValue(Tail(s), 10 * acc + DigitVal(Head(s)))

SignLen(s, i) == IF i < Len(s) /\ At(s, i) \in {"+", "-"} THEN 1 ELSE 0

(* int(s): [ok, v]; ok is FALSE where Python raises ValueError *)
PyInt(str) ==
  LET s == Strip(str)
      i0 == SignLen(s, 0)
      i1 == DigitPartEnd(s, i0)
      v == DigitsValue(Slice(s, i0, i1), 0)
  IN IF i1 > i0 /\ i1 = Len(s)
     THEN [ok |-> TRUE, v |-> IF i0 = 1 /\ At(s, 0) = "-" THEN -v ELSE v]
     ELSE [ok |-> FALSE, v |-> 0]

Lower(c) ==
  CASE c = "I" -> "i" [] c = "N" -> "n" [] c = "F" -> "f" [] c = "T" -> "t"
    [] c = "Y" -> "y" [] c = "A" -> "a" [] c = "E" -> "e" [] OTHER -> c

LowerStr(s) == [i \in 1..Len(s) |-> Lower(s[i])]

(* the largest finite double is 1.7976931348623157e308: a decimal with    *)
(* leading significant digits d1 d2 at decimal position p (value in       *)
(* [d1.d2 * 10^p, ...)) rounds to infinity when it is above that          *)
MaxFloatExp10 == 308

FloatOverflows(lead, next, pos) ==
  lead > 0 /\ (pos > MaxFloatExp10
               \/ (pos = MaxFloatExp10 /\ (lead >= 2 \/ next >= 8)))

(* float(s): [ok, inf, nan]; ok is FALSE where Python raises ValueError   *)
PyFloat(str) ==
  LET s == Strip(str)
      i0 == SignLen(s, 0)
      word == LowerStr(SliceFrom(s, i0))
      i1 == DigitPartEnd(s, i0)
      hasInt == i1 > i0
      hasDot == i1 < Len(s) /\ At(s, i1) = "."
      i2 == IF hasDot THEN DigitPartEnd(s, i1 + 1) ELSE i1
      hasFrac == hasDot /\ i2 > i1 + 1
      i3 == IF hasDot /\ ~hasFrac THEN i1 + 1 ELSE i2
      hasE == i3 < Len(s) /\ At(s, i3) \in {"e", "E"}
      e0 == i3 + 1 + SignLen(s, i3 + 1)
      e1 == DigitPartEnd(s, e0)
      end == IF hasE THEN e1 ELSE i3
      expOk == ~hasE \/ e1 > e0
      expAbs == IF hasE /\ e1 > e0 THEN DigitsValue(Slice(s, e0, e1), 0) ELSE 0
      exp == IF hasE /\ At(s, i3 + 1) = "-" THEN -expAbs ELSE expAbs
      intDigits == Replace(Slice(s, i0, i1), "_", <<>>)
      fracDigits == IF hasFrac THEN Replace(Slice(s, i1 + 1, i2), "_", <<>>) ELSE <<>>
      all == intDigits \o fracDigits
      nz == {k \in 1..Len(all) : all[k] # "0"}
      first == IF nz = {} THEN 0 ELSE CHOOSE k \in nz : \A j \in nz : k <= j
      lead == IF nz = {} THEN 0 ELSE DigitVal(all[first])
      next == IF nz = {} \/ first = Len(all) THEN 0 ELSE DigitVal(all[first + 1])
      pos == Len(intDigits) - first + exp
  IN IF word \in {<<"i", "n", "f">>, <<"i", "n", "f", "i", "n", "i", "t", "y">>}
     THEN [ok |-> TRUE, inf |-> TRUE, nan |-> FALSE]
     ELSE IF word = <<"n", "a", "n">>
     THEN [ok |-> TRUE, inf |-> FALSE, nan |-> TRUE]
     ELSE IF (hasInt \/ hasFrac) /\ expOk /\ end = Len(s)
     THEN [ok |-> TRUE, inf |-> FloatOverflows(lead, next, pos), nan |-> FALSE]
     ELSE [ok |-> FALSE, inf |-> FALSE, nan |-> FALSE]

(***************************************************************************)
(* tone/shared/literal_utils.py                                            *)
(***************************************************************************)
is_boolean_or_null_literal(token) ==
  token = TRUE_LITERAL \/ token = FALSE_LITERAL \/ token = NULL_LITERAL

(* re's "$" matches at the end and also just before a final newline *)
AtDollar(s, i) == i = Len(s) \/ (i = Len(s) - 1 /\ At(s, i) = NEWLINE)

(* re.match(r"^-?\d+(?:\.\d+)?(?:[eE][+-]?\d+)?$", value) *)
MatchesNumberPattern(value) ==
  LET i0 == IF 0 < Len(value) /\ At(value, 0) = "-" THEN 1 ELSE 0
      i1 == DigitsEnd(value, i0)
      f1 == DigitsEnd(value, i1 + 1)
      i2 == IF i1 < Len(value) /\ At(value, i1) = "." /\ f1 > i1 + 1 THEN f1 ELSE i1
      e0 == i2 + 1 + SignLen(value, i2 + 1)
      e1 == DigitsEnd(value, e0)
      i3 == IF i2 < Len(value) /\ At(value, i2) \in {"e", "E"} /\ e1 > e0 THEN e1 ELSE i2
  IN i1 > i0 /\ AtDollar(value, i3)

(* re.match(r"^0\d+$", value) *)
MatchesLeadingZeroPattern(value) ==
  /\ 0 < Len(value)
  /\ At(value, 0) = "0"
  /\ DigitsEnd(value, 1) > 1
  /\ AtDollar(value, DigitsEnd(value, 1))

is_numeric_like(value) ==
  IF MatchesNumberPattern(value) THEN TRUE ELSE MatchesLeadingZeroPattern(value)

(* is_numeric_literal without the refusal of a leading zero *)
is_numeric_literal_allows_leading_zero(token) ==
  IF token = <<>> THEN FALSE
  ELSE LET num == PyFloat_(token)
       IN IF num.ok THEN ~num.inf /\ ~num.nan ELSE FALSE

is_numeric_literal(token) ==
  IF token = <<>> THEN FALSE
  ELSE IF Len(token) > 1 /\ At(token, 0) = "0" /\ At(token, 1) # "." THEN FALSE
  ELSE LET num == PyFloat_(token)
       IN IF num.ok THEN ~num.inf /\ ~num.nan ELSE FALSE

(***************************************************************************)
(* tone/shared/string_utils.py                                             *)
(***************************************************************************)
(* escape_string that escapes the backslash last, after it has written the *)
(* backslashes of the other escapes                                        *)
escape_string_backslash_last(value) ==
  Replace(Replace(Replace(Replace(Replace(value,
    DOUBLE_QUOTE, <<BACKSLASH, DOUBLE_QUOTE>>),
    NEWLINE, <<BACKSLASH, "n">>),
    CARRIAGE_RETURN, <<BACKSLASH, "r">>),
    TAB, <<BACKSLASH, "t">>),
    BACKSLASH, <<BACKSLASH, BACKSLASH>>)

(* escape_string: five str.replace calls in turn, the backslash first      *)
escape_string(value) ==
  Replace(Replace(Replace(Replace(Replace(value,
    BACKSLASH, <<BACKSLASH, BACKSLASH>>),
    DOUBLE_QUOTE, <<BACKSLASH, DOUBLE_QUOTE>>),
    NEWLINE, <<BACKSLASH, "n">>),
    CARRIAGE_RETURN, <<BACKSLASH, "r">>),
    TAB, <<BACKSLASH, "t">>)

(* the while loop of unescape_string from index i with the result so far;  *)
(* [ok, s]: ok is FALSE where SyntaxError is raised                        *)
RECURSIVE UnescapeFrom(_, _, _)
UnescapeFrom(value, i, result) ==
  IF ~(i < Len(value)) THEN [ok |-> TRUE, s |-> result]
  ELSE IF At(value, i) = BACKSLASH
  THEN IF i + 1 >= Len(value) THEN [ok |-> FALSE, s |-> <<>>]
       ELSE LET next_char == At(value, i + 1)
            IN CASE next_char = "n" -> UnescapeFrom(value, i + 2, Append(result, NEWLINE))
                 [] next_char = "t" -> UnescapeFrom(value, i + 2, Append(result, TAB))
                 [] next_char = "r" ->
                      UnescapeFrom(value, i + 2, Append(result, CARRIAGE_RETURN))
                 [] next_char = BACKSLASH ->
                      UnescapeFrom(value, i + 2, Append(result, BACKSLASH))
                 [] next_char = DOUBLE_QUOTE ->
                      UnescapeFrom(value, i + 2, Append(result, DOUBLE_QUOTE))
                 [] OTHER -> [ok |-> FALSE, s |-> <<>>]
  ELSE UnescapeFrom(value, i + 1, Append(result, At(value, i)))

unescape_string(value) == UnescapeFrom(value, 0, <<>>)

RECURSIVE ClosingQuoteFrom(_, _)
ClosingQuoteFrom(content, i) ==
  IF ~(i < Len(content)) THEN -1
  ELSE IF At(content, i) = BACKSLASH /\ i + 1 < Len(content)
  THEN ClosingQuoteFrom(content, i + 2)
  ELSE IF At(content, i) = DOUBLE_QUOTE THEN i
  ELSE ClosingQuoteFrom(content, i + 1)

(* find_closing_quote that takes an escaped quote for the closing one *)
find_closing_quote_no_escape(content, start) == Find(content, DOUBLE_QUOTE, start + 1)

find_closing_quote(content, start) == ClosingQuoteFrom(content, start + 1)

RECURSIVE UnquotedCharFrom(_, _, _, _)
UnquotedCharFrom(content, char, i, in_quotes) ==
  IF ~(i < Len(content)) THEN -1
  ELSE IF At(content, i) = BACKSLASH /\ i + 1 < Len(content) /\ in_quotes
  THEN UnquotedCharFrom(content, char, i + 2, in_quotes)
  ELSE IF At(content, i) = DOUBLE_QUOTE
  THEN UnquotedCharFrom(content, char, i + 1, ~in_quotes)
  ELSE IF At(content, i) = char /\ ~in_quotes THEN i
  ELSE UnquotedCharFrom(content, char, i + 1, in_quotes)

find_unquoted_char(content, char, start) == UnquotedCharFrom(content, char, start, FALSE)

(***************************************************************************)
(* tone/shared/validation.py                                               *)
(***************************************************************************)
(* is_safe_unquoted without the check for the active delimiter *)
is_safe_unquoted_any_delimiter(value, delimiter) ==
  IF value = <<>> THEN FALSE
  ELSE IF value # Strip(value) THEN FALSE
  ELSE IF is_boolean_or_null_literal(value) \/ is_numeric_like_(value) THEN FALSE
  ELSE IF Contains(value, COLON) THEN FALSE
  ELSE IF Contains(value, DOUBLE_QUOTE) \/ Contains(value, BACKSLASH) THEN FALSE
  ELSE IF \E c \in {"[", "]", "{", "}"} : Contains(value, c) THEN FALSE
  ELSE IF \E c \in {NEWLINE, CARRIAGE_RETURN, TAB} : Contains(value, c) THEN FALSE
  ELSE IF StartsWith(value, LIST_ITEM_MARKER) THEN FALSE
  ELSE TRUE

is_safe_unquoted(value, delimiter) ==
  IF value = <<>> THEN FALSE
  ELSE IF value # Strip(value) THEN FALSE
  ELSE IF is_boolean_or_null_literal(value) \/ is_numeric_like_(value) THEN FALSE
  ELSE IF Contains(value, COLON) THEN FALSE
  ELSE IF Contains(value, DOUBLE_QUOTE) \/ Contains(value, BACKSLASH) THEN FALSE
  ELSE IF \E c \in {"[", "]", "{", "}"} : Contains(value, c) THEN FALSE
  ELSE IF \E c \in {NEWLINE, CARRIAGE_RETURN, TAB} : Contains(value, c) THEN FALSE
  ELSE IF Contains(value, delimiter) THEN FALSE
  ELSE IF StartsWith(value, LIST_ITEM_MARKER) THEN FALSE
  ELSE TRUE

(***************************************************************************)
(* tone/encode/primitives.py                                               *)
(***************************************************************************)
encode_string_literal(value, delimiter) ==
  IF is_safe_unquoted_(value, delimiter) THEN value
  ELSE <<DOUBLE_QUOTE>> \o escape_string_(value) \o <<DOUBLE_QUOTE>>

encode_primitive(value, delimiter) ==
  CASE value.t = "null" -> NULL_LITERAL
    [] value.t = "bool" -> (IF value.b THEN TRUE_LITERAL ELSE FALSE_LITERAL)
    [] value.t = "int" -> IntStr(value.i)
    [] value.t = "float" -> value.f
    [] OTHER -> encode_string_literal_(value.s, delimiter)

(* re.match(r"^[A-Z_][\w.]*$", key, re.IGNORECASE): \w is every Unicode    *)
(* word character (letters, digits and underscore of any script)          *)
AsciiLetters ==
  {"a", "b", "c", "d", "e", "f", "g", "h", "i", "j", "k", "l", "m", "n", "o", "p", "q",
   "r", "s", "t", "u", "v", "w", "x", "y", "z",
   "A", "B", "C", "D", "E", "F", "G", "H", "I", "J", "K", "L", "M", "N", "O", "P", "Q",
   "R", "S", "T", "U", "V", "W", "X", "Y", "Z"}
(* a non-ASCII character is written as its code point: U+00E9 is e-acute *)
NonAsciiWordChars == {"U+00E9"}
KeyStartChars == AsciiLetters \cup {"_"}
WordChars == AsciiLetters \cup Digits \cup {"_"} \cup NonAsciiWordChars

RECURSIVE WordEnd(_, _)
WordEnd(s, i) ==
  IF i < Len(s) /\ At(s, i) \in WordChars \cup {"."} THEN WordEnd(s, i + 1) ELSE i

is_valid_unquoted_key(key) ==
  /\ 0 < Len(key)
  /\ At(key, 0) \in KeyStartChars
  /\ LET end == WordEnd(key, 1) IN AtDollar(key, end)

encode_key(key) ==
  IF is_valid_unquoted_key_(key) THEN key
  ELSE <<DOUBLE_QUOTE>> \o escape_string_(key) \o <<DOUBLE_QUOTE>>

RECURSIVE EncodeEach(_, _)
EncodeEach(values, delimiter) ==
  IF values = <<>> THEN <<>>
  ELSE <<encode_primitive_(Head(values), delimiter)>> \o EncodeEach(Tail(values), delimiter)

encode_and_join_primitives(values, delimiter) ==
  Join(EncodeEach(values, delimiter), <<delimiter>>)

(* an Optional[str] key is [some, k]; "if key:" is false for None and for "" *)
NoKey == [some |-> FALSE, k |-> <<>>]
SomeKey(k) == [some |-> TRUE, k |-> k]
Truthy(key) == key.some /\ key.k # <<>>

RECURSIVE EncodeKeys(_)
EncodeKeys(fields) ==
  IF fields = <<>> THEN <<>> ELSE <<encode_key_(Head(fields))>> \o EncodeKeys(Tail(fields))

(* fields is <<>> both for None and for the empty list: "if fields:" *)
format_header(length, key, fields, delimiter, length_marker) ==
  (IF Truthy(key) THEN encode_key_(key.k) ELSE <<>>)
  \o <<"[">>
  \o (IF length_marker # <<>> THEN <<"#">> ELSE <<>>)
  \o IntStr(length)
  \o (IF delimiter # DEFAULT_DELIMITER THEN <<delimiter>> ELSE <<>>)
  \o <<"]">>
  \o (IF fields # <<>>
      THEN <<"{">> \o Join(EncodeKeys(fields), <<delimiter>>) \o <<"}">>
      ELSE <<>>)
  \o <<":">>

(***************************************************************************)
(* tone/encode/writer.py                                                   *)
(***************************************************************************)
LineWriter(indent_size) ==
  [lines |-> <<>>, indentation_string |-> Repeat(<<" ">>, indent_size)]

push(writer, depth, content) ==
  [writer EXCEPT !.lines = Append(@, Repeat(writer.indentation_string, depth) \o content)]

push_list_item(writer, depth, content) == push(writer, depth, LIST_ITEM_PREFIX \o content)

to_string(writer) == Join(writer.lines, <<NEWLINE>>)

(***************************************************************************)
(* tone/encode/normalize.py: type guards                                   *)
(***************************************************************************)
is_json_primitive(value) == value.t \in {"null", "bool", "int", "float", "str"}
is_json_array(value) == value.t = "seq"
is_json_object(value) == value.t = "map"
is_array_of_primitives(value) == \A i \in 1..Len(value.xs) : is_json_primitive(value.xs[i])
is_array_of_arrays(value) == \A i \in 1..Len(value.xs) : is_json_array(value.xs[i])
is_array_of_objects(value) == \A i \in 1..Len(value.xs) : is_json_object(value.xs[i])

(* dict operations on the ordered pair list of a mapping *)
Keys(ps) == [i \in 1..Len(ps) |-> ps[i].k]
HasKey(ps, k) == \E i \in 1..Len(ps) : ps[i].k = k
Get(ps, k) == ps[CHOOSE i \in 1..Len(ps) : ps[i].k = k].v
(* obj[key] = value: an existing key keeps its position *)
DictSet(ps, k, v) ==
  IF HasKey(ps, k)
  THEN [i \in 1..Len(ps) |-> IF ps[i].k = k THEN [k |-> k, v |-> v] ELSE ps[i]]
  ELSE Append(ps, [k |-> k, v |-> v])

(***************************************************************************)
(* tone/encode/encoders.py.  Every encoder takes the writer and returns    *)
(* the writer with the lines it pushed.                                    *)
(***************************************************************************)
(* the inline line with the separating space written for every length *)
encode_inline_array_line_always_space(values, delimiter, prefix, length_marker) ==
  format_header_(Len(values), prefix, <<>>, delimiter, length_marker)
    \o <<" ">> \o encode_and_join_primitives_(values, delimiter)

encode_inline_array_line(values, delimiter, prefix, length_marker) ==
  LET header == format_header_(Len(values), prefix, <<>>, delimiter, length_marker)
      joined_value == encode_and_join_primitives_(values, delimiter)
  IN IF Len(values) = 0 THEN header ELSE header \o <<" ">> \o joined_value

(* is_tabular_array asking every row for the header's keys in the header's *)
(* order                                                                   *)
is_tabular_array_same_order(rows, header) ==
  \A r \in 1..Len(rows) :
    /\ rows[r].t = "map"
    /\ Keys(rows[r].ps) = header
    /\ \A h \in 1..Len(header) : is_json_primitive(rows[r].ps[h].v)

is_tabular_array(rows, header) ==
  \A r \in 1..Len(rows) :
    /\ rows[r].t = "map"
    /\ Len(rows[r].ps) = Len(header)
    /\ \A h \in 1..Len(header) :
         HasKey(rows[r].ps, header[h]) /\ is_json_primitive(Get(rows[r].ps, header[h]))

(* the header field names, or <<>> for None *)
extract_tabular_header(rows) ==
  IF Len(rows) = 0 THEN <<>>
  ELSE IF rows[1].t # "map" THEN <<>>
  ELSE IF Len(rows[1].ps) = 0 THEN <<>>
  ELSE IF is_tabular_array_(rows, Keys(rows[1].ps)) THEN Keys(rows[1].ps)
  ELSE <<>>

write_tabular_rows(rows, header, writer, depth, options) ==
  IF rows = <<>> THEN writer
  ELSE IF Head(rows).t # "map"
  THEN write_tabular_rows_(Tail(rows), header, writer, depth, options)
  ELSE LET values == [h \in 1..Len(header) |-> Get(Head(rows).ps, header[h])]
           joined_value == encode_and_join_primitives_(values, options.delimiter)
       IN write_tabular_rows_(Tail(rows), header, push(writer, depth, joined_value),
                             depth, options)

encode_array_of_objects_as_tabular(prefix, rows, header, writer, depth, options) ==
  LET formatted_header ==
        format_header_(Len(rows), prefix, header, options.delimiter, options.length_marker)
  IN write_tabular_rows_(rows, header, push(writer, depth, formatted_header),
                        depth + 1, options)

RECURSIVE ArraysAsListItems(_, _, _, _)
ArraysAsListItems(values, writer, depth, options) ==
  IF values = <<>> THEN writer
  ELSE IF is_array_of_primitives(Head(values))
  THEN ArraysAsListItems(Tail(values),
         push_list_item(writer, depth + 1,
           encode_inline_array_line_(Head(values).xs, options.delimiter, NoKey,
                                    options.length_marker)),
         depth, options)
  ELSE ArraysAsListItems(Tail(values), writer, depth, options)

encode_array_of_arrays_as_list_items(prefix, values, writer, depth, options) ==
  LET header ==
        format_header_(Len(values), prefix, <<>>, options.delimiter, options.length_marker)
  IN ArraysAsListItems(values, push(writer, depth, header), depth, options)

RECURSIVE EncodePairs(_, _, _, _)
RECURSIVE EncodeListItemValues(_, _, _, _)
RECURSIVE EncodeObjectsAsListItems(_, _, _, _)

(* for key, val in value.items(): encode_key_value_pair(...) *)
EncodePairs(ps, writer, depth, options) ==
  IF ps = <<>> THEN writer
  ELSE EncodePairs(Tail(ps),
         encode_key_value_pair_(Head(ps).k, Head(ps).v, writer, depth, options),
         depth, options)

encode_object(value, writer, depth, options) == EncodePairs(value.ps, writer, depth, options)

encode_key_value_pair(key, value, writer, depth, options) ==
  LET encoded_key == encode_key_(key)
  IN IF is_json_primitive(value)
     THEN push(writer, depth,
               encoded_key \o <<":", " ">> \o encode_primitive_(value, options.delimiter))
     ELSE IF is_json_array(value)
     THEN encode_array_(SomeKey(key), value, writer, depth, options)
     ELSE IF is_json_object(value)
     THEN IF Len(value.ps) = 0 THEN push(writer, depth, encoded_key \o <<":">>)
          ELSE encode_object_(value, push(writer, depth, encoded_key \o <<":">>),
                             depth + 1, options)
     ELSE writer

encode_array(key, value, writer, depth, options) ==
  IF Len(value.xs) = 0
  THEN push(writer, depth,
            format_header_(0, key, <<>>, options.delimiter, options.length_marker))
  ELSE IF is_array_of_primitives(value)
  THEN push(writer, depth,
            encode_inline_array_line_(value.xs, options.delimiter, key,
                                     options.length_marker))
  ELSE IF is_array_of_arrays(value)
          /\ \A i \in 1..Len(value.xs) : is_array_of_primitives(value.xs[i])
  THEN encode_array_of_arrays_as_list_items_(key, value.xs, writer, depth, options)
  ELSE IF is_array_of_objects(value)
  THEN LET header == extract_tabular_header_(value.xs)
       IN IF header # <<>>
          THEN encode_array_of_objects_as_tabular_(key, value.xs, header, writer, depth,
                                                  options)
          ELSE encode_mixed_array_as_list_items_(key, value.xs, writer, depth, options)
  ELSE encode_mixed_array_as_list_items_(key, value.xs, writer, depth, options)

(* for item in items: encode_list_item_value(item, writer, depth, options) *)
EncodeListItemValues(items, writer, depth, options) ==
  IF items = <<>> THEN writer
  ELSE EncodeListItemValues(Tail(items),
         encode_list_item_value_(Head(items), writer, depth, options), depth, options)

(* for item in first_value: encode_object_as_list_item(item, writer, depth, options) *)
EncodeObjectsAsListItems(items, writer, depth, options) ==
  IF items = <<>> THEN writer
  ELSE EncodeObjectsAsListItems(Tail(items),
         encode_object_as_list_item_(Head(items), writer, depth, options), depth, options)

encode_mixed_array_as_list_items(prefix, items, writer, depth, options) ==
  LET header ==
        format_header_(Len(items), prefix, <<>>, options.delimiter, options.length_marker)
  IN EncodeListItemValues(items, push(writer, depth, header), depth + 1, options)

encode_object_as_list_item(obj, writer, depth, options) ==
  IF Len(obj.ps) = 0 THEN push(writer, depth, LIST_ITEM_MARKER)
  ELSE
    LET first_key == obj.ps[1].k
        encoded_key == encode_key_(first_key)
        first_value == obj.ps[1].v
        header == extract_tabular_header_(first_value.xs)
        bare_header == encoded_key \o <<"[">> \o IntStr(Len(first_value.xs)) \o <<"]", ":">>
        w1 ==
          IF is_json_primitive(first_value)
          THEN push_list_item(writer, depth,
                 encoded_key \o <<":", " ">>
                 \o encode_primitive_(first_value, options.delimiter))
          ELSE IF is_json_array(first_value)
          THEN IF is_array_of_primitives(first_value)
               THEN push_list_item(writer, depth,
                      encode_inline_array_line_(first_value.xs, options.delimiter,
                                               SomeKey(first_key), options.length_marker))
               ELSE IF is_array_of_objects(first_value)
               THEN IF header # <<>>
                    THEN write_tabular_rows_(first_value.xs, header,
                           push_list_item(writer, depth,
                             format_header_(Len(first_value.xs), SomeKey(first_key), header,
                                           options.delimiter, options.length_marker)),
                           depth + 1, options)
                    ELSE EncodeObjectsAsListItems(first_value.xs,
                           push_list_item(writer, depth, bare_header), depth + 1, options)
               ELSE EncodeListItemValues(first_value.xs,
                      push_list_item(writer, depth, bare_header), depth + 1, options)
          ELSE IF is_json_object(first_value)
          THEN IF Len(first_value.ps) = 0
               THEN push_list_item(writer, depth, encoded_key \o <<":">>)
               ELSE encode_object_(first_value,
                      push_list_item(writer, depth, encoded_key \o <<":">>),
                      depth + 2, options)
          ELSE writer
    IN EncodePairs(Tail(obj.ps), w1, depth + 1, options)

encode_list_item_value(value, writer, depth, options) ==
  IF is_json_primitive(value)
  THEN push_list_item(writer, depth, encode_primitive_(value, options.delimiter))
  ELSE IF is_json_array(value) /\ is_array_of_primitives(value)
  THEN push_list_item(writer, depth,
         encode_inline_array_line_(value.xs, options.delimiter, NoKey,
                                  options.length_marker))
  ELSE IF is_json_object(value)
  THEN encode_object_as_list_item_(value, writer, depth, options)
  ELSE writer

encode_value(value, options) ==
  IF is_json_primitive(value) THEN encode_primitive_(value, options.delimiter)
  ELSE IF is_json_array(value)
  THEN to_string(encode_array_(NoKey, value, LineWriter(options.indent), 0, options))
  ELSE IF is_json_object(value)
  THEN to_string(encode_object_(value, LineWriter(options.indent), 0, options))
  ELSE to_string(LineWriter(options.indent))

(***************************************************************************)
(* tone/decode/parser.py: primitive tokens                                 *)
(***************************************************************************)
parse_string_literal(token) ==
  LET trimmed == Strip(token)
      closing_quote_index == find_closing_quote_(trimmed, 0)
      content == Slice(trimmed, 1, closing_quote_index)
      unescaped == unescape_string_(content)
  IN IF StartsWith(trimmed, <<DOUBLE_QUOTE>>)
     THEN IF closing_quote_index = -1 THEN Raise("SyntaxError: unterminated string")
          ELSE IF closing_quote_index # Len(trimmed) - 1
          THEN Raise("SyntaxError: unexpected characters after closing quote")
          ELSE IF unescaped.ok THEN VStr(unescaped.s)
          ELSE Raise("SyntaxError: invalid escape sequence")
     ELSE VStr(trimmed)

parse_primitive_token(token) ==
  LET trimmed == Strip(token)
      asInt == PyInt_(trimmed)
  IN IF trimmed = <<>> THEN VStr(<<>>)
     ELSE IF StartsWith(trimmed, <<DOUBLE_QUOTE>>) THEN parse_string_literal_(trimmed)
     ELSE IF trimmed = TRUE_LITERAL THEN VBool(TRUE)
     ELSE IF trimmed = FALSE_LITERAL THEN VBool(FALSE)
     ELSE IF trimmed = NULL_LITERAL THEN VNull
     ELSE IF is_numeric_literal_(trimmed)
     THEN IF ~Contains(trimmed, ".") /\ ~Contains(LowerStr(trimmed), "e")
          THEN (IF asInt.ok THEN VInt(asInt.v) ELSE VStr(trimmed))
          ELSE VFloat(trimmed)
     ELSE VStr(trimmed)

(***************************************************************************)
(* tone/decode/parser.py: headers, keys and delimited values               *)
(* the bracket segment read without its delimiter suffix being honoured *)
parse_bracket_segment_default_delimiter(seg, default_delimiter) ==
  LET c1 == IF StartsWith(seg, <<HASH>>) THEN SliceFrom(seg, 1) ELSE seg
      c2 == IF EndsWith(c1, <<TAB>>) \/ EndsWith(c1, <<PIPE>>)
            THEN SubSeq(c1, 1, Len(c1) - 1) ELSE c1
  IN [ok |-> PyInt_(c2).ok, length |-> PyInt_(c2).v, delimiter |-> default_delimiter,
      has_length_marker |-> StartsWith(seg, <<HASH>>)]

(***************************************************************************)
(* [ok, length, delimiter, has_length_marker]; ok is FALSE where TypeError *)
(* is raised                                                               *)
parse_bracket_segment(seg, default_delimiter) ==
  LET has_length_marker == StartsWith(seg, <<HASH>>)
      c1 == IF has_length_marker THEN SliceFrom(seg, 1) ELSE seg
      delimiter == IF EndsWith(c1, <<TAB>>) THEN TAB
                   ELSE IF EndsWith(c1, <<PIPE>>) THEN PIPE
                   ELSE default_delimiter
      c2 == IF EndsWith(c1, <<TAB>>) \/ EndsWith(c1, <<PIPE>>)
            THEN SubSeq(c1, 1, Len(c1) - 1) ELSE c1
      length == PyInt_(c2)
  IN [ok |-> length.ok, length |-> length.v, delimiter |-> delimiter,
      has_length_marker |-> has_length_marker]

(* the while loop of parse_delimited_values from index i *)
RECURSIVE DelimitedFrom(_, _, _, _, _, _)
DelimitedFrom(input_str, delimiter, i, values, current, in_quotes) ==
  IF ~(i < Len(input_str))
  THEN IF current # <<>> \/ Len(values) > 0 THEN Append(values, Strip(current)) ELSE values
  ELSE LET char == At(input_str, i)
       IN IF char = BACKSLASH /\ i + 1 < Len(input_str) /\ in_quotes
          THEN DelimitedFrom(input_str, delimiter, i + 2, values,
                             current \o <<char, At(input_str, i + 1)>>, in_quotes)
          ELSE IF char = DOUBLE_QUOTE
          THEN DelimitedFrom(input_str, delimiter, i + 1, values, Append(current, char),
                             ~in_quotes)
          ELSE IF char = delimiter /\ ~in_quotes
          THEN DelimitedFrom(input_str, delimiter, i + 1, Append(values, Strip(current)),
                             <<>>, in_quotes)
          ELSE DelimitedFrom(input_str, delimiter, i + 1, values, Append(current, char),
                             in_quotes)

parse_delimited_values(input_str, delimiter) ==
  DelimitedFrom(input_str, delimiter, 0, <<>>, <<>>, FALSE)

(* the values, or the first exception raised while parsing them *)
RECURSIVE MapTokens(_, _, _)
MapTokens(Parse(_), values, done) ==
  IF values = <<>> THEN VArr(done)
  ELSE LET v == Parse(Head(values))
       IN IF IsError(v) THEN v ELSE MapTokens(Parse, Tail(values), Append(done, v))

map_row_values_to_primitives(values) == MapTokens(parse_primitive_token_, values, <<>>)

NoHeader == [t |-> "none"]

(* NoHeader for None, an exception, or [t |-> "header", header, inlineValues]; *)
(* inlineValues is <<>> for None                                            *)
parse_array_header_line(content, default_delimiter) ==
  LET bracket_start == Find(content, OPEN_BRACKET, 0)
      bracket_end == Find(content, CLOSE_BRACKET, bracket_start)
      brace_start == Find(content, OPEN_BRACE, bracket_end)
      first_brace_end == Find(content, CLOSE_BRACE, brace_start)
      brace_end ==
        IF brace_start # -1 /\ brace_start < Find(content, COLON, bracket_end)
           /\ first_brace_end # -1
        THEN first_brace_end + 1 ELSE bracket_end + 1
      colon_index == Find(content, COLON, Max(bracket_end, brace_end))
      key == IF bracket_start > 0 THEN SomeKey(Slice(content, 0, bracket_start)) ELSE NoKey
      after_colon == Strip(SliceFrom(content, colon_index + 1))
      bracket_content == Slice(content, bracket_start + 1, bracket_end)
      parsed_bracket == parse_bracket_segment_(bracket_content, default_delimiter)
      found_brace_end == Find(content, CLOSE_BRACE, brace_start)
      has_fields == /\ brace_start # -1 /\ brace_start < colon_index
                    /\ found_brace_end # -1 /\ found_brace_end < colon_index
      fields_content == Slice(content, brace_start + 1, found_brace_end)
      fields == IF has_fields
                THEN MapTokens(parse_string_literal_,
                               parse_delimited_values_(fields_content,
                                                      parsed_bracket.delimiter), <<>>)
                ELSE VArr(<<>>)
  IN IF StartsWith(LStrip(content), <<DOUBLE_QUOTE>>) THEN NoHeader
     ELSE IF bracket_start = -1 THEN NoHeader
     ELSE IF bracket_end = -1 THEN NoHeader
     ELSE IF colon_index = -1 THEN NoHeader
     ELSE IF ~parsed_bracket.ok THEN NoHeader
     ELSE IF IsError(fields) THEN fields
     ELSE [t |-> "header",
           header |-> [key |-> key,
                       length |-> parsed_bracket.length,
                       delimiter |-> parsed_bracket.delimiter,
                       fields |-> [i \in 1..Len(fields.xs) |-> fields.xs[i].s],
                       has_fields |-> has_fields,
                       has_length_marker |-> parsed_bracket.has_length_marker],
           inlineValues |-> after_colon]

(* [ok, key, end]; ok is FALSE where SyntaxError is raised *)
parse_unquoted_key(content, start) ==
  LET colon == Find(content, COLON, start)
  IN IF colon = -1 THEN [ok |-> FALSE, key |-> <<>>, end |-> 0]
     ELSE [ok |-> TRUE, key |-> Strip(Slice(content, start, colon)), end |-> colon + 1]

parse_quoted_key(content, start) ==
  LET closing_quote_index == find_closing_quote_(content, start)
      key == unescape_string_(Slice(content, start + 1, closing_quote_index))
      end == closing_quote_index + 1
  IN IF closing_quote_index = -1 THEN [ok |-> FALSE, key |-> <<>>, end |-> 0]
     ELSE IF ~key.ok THEN [ok |-> FALSE, key |-> <<>>, end |-> 0]
     ELSE IF end >= Len(content) \/ At(content, end) # COLON
     THEN [ok |-> FALSE, key |-> <<>>, end |-> 0]
     ELSE [ok |-> TRUE, key |-> key.s, end |-> end + 1]

(* content[start] raises IndexError on an empty content *)
parse_key_token(content, start) ==
  IF ~(start < Len(content)) THEN [ok |-> FALSE, key |-> <<>>, end |-> 0]
  ELSE IF At(content, start) = DOUBLE_QUOTE THEN parse_quoted_key_(content, start)
  ELSE parse_unquoted_key_(content, start)

is_array_header_after_hyphen(content) ==
  StartsWith(Strip(content), <<OPEN_BRACKET>>) /\ find_unquoted_char_(content, COLON, 0) # -1

is_object_first_field_after_hyphen(content) == find_unquoted_char_(content, COLON, 0) # -1

(***************************************************************************)
(* tone/decode/scanner.py                                                  *)
(***************************************************************************)
_compute_depth_from_indent(indent_spaces, indent_size) == indent_spaces \div indent_size

RECURSIVE LeadingRun(_, _, _)
LeadingRun(raw, chars, i) ==
  IF i < Len(raw) /\ At(raw, i) \in chars THEN LeadingRun(raw, chars, i + 1) ELSE i

(* the loop with the strict checks made before blank lines are skipped *)
RECURSIVE ScanFromChecksBlank(_, _, _, _, _, _)
ScanFromChecksBlank(lines, i, indent_size, strict, parsed, blank_lines) ==
  IF ~(i < Len(lines)) THEN [t |-> "scan", lines |-> parsed, blank_lines |-> blank_lines]
  ELSE
    LET raw == At(lines, i)
        line_number == i + 1
        indent == LeadingRun(raw, {SPACE}, 0)
        content == SliceFrom(raw, indent)
        depth == _compute_depth_from_indent(indent, indent_size)
        ws_end == LeadingRun(raw, {SPACE, TAB}, 0)
    IN IF strict /\ Contains(Slice(raw, 0, ws_end), TAB)
       THEN Raise("SyntaxError: tabs in indentation")
       ELSE IF strict /\ indent > 0 /\ indent % indent_size # 0
       THEN Raise("SyntaxError: indentation not a multiple")
       ELSE IF Strip(content) = <<>>
       THEN ScanFromChecksBlank(lines, i + 1, indent_size, strict, parsed,
                                Append(blank_lines,
                                       [line_number |-> line_number, indent |-> indent,
                                        depth |-> depth]))
       ELSE ScanFromChecksBlank(lines, i + 1, indent_size, strict,
                                Append(parsed,
                                       [raw |-> raw, indent |-> indent, content |-> content,
                                        depth |-> depth, line_number |-> line_number]),
                                blank_lines)

(* the for loop of to_parsed_lines from the i-th (0-based) raw line *)
RECURSIVE ScanFrom(_, _, _, _, _, _)
ScanFrom(lines, i, indent_size, strict, parsed, blank_lines) ==
  IF ~(i < Len(lines)) THEN [t |-> "scan", lines |-> parsed, blank_lines |-> blank_lines]
  ELSE
    LET raw == At(lines, i)
        line_number == i + 1
        indent == LeadingRun(raw, {SPACE}, 0)
        content == SliceFrom(raw, indent)
        depth == _compute_depth_from_indent(indent, indent_size)
        ws_end == LeadingRun(raw, {SPACE, TAB}, 0)
    IN IF Strip(content) = <<>>
       THEN ScanFrom(lines, i + 1, indent_size, strict, parsed,
                     Append(blank_lines,
                            [line_number |-> line_number, indent |-> indent,
                             depth |-> depth]))
       ELSE IF strict /\ Contains(Slice(raw, 0, ws_end), TAB)
       THEN Raise("SyntaxError: tabs in indentation")
       ELSE IF strict /\ indent > 0 /\ indent % indent_size # 0
       THEN Raise("SyntaxError: indentation not a multiple")
       ELSE ScanFrom(lines, i + 1, indent_size, strict,
                     Append(parsed,
                            [raw |-> raw, indent |-> indent, content |-> content,
                             depth |-> depth, line_number |-> line_number]),
                     blank_lines)

to_parsed_lines(source, indent_size, strict) ==
  IF Strip(source) = <<>> THEN [t |-> "scan", lines |-> <<>>, blank_lines |-> <<>>]
  ELSE ScanFrom(Split(source, NEWLINE), 0, indent_size, strict, <<>>, <<>>)

(* the cursor built without the blank lines the scanner recorded *)
LineCursorNoBlanks(lines, blank_lines) == [lines |-> lines, index |-> 0, blank_lines |-> <<>>]

LineCursor(lines, blank_lines) == [lines |-> lines, index |-> 0, blank_lines |-> blank_lines]

(* None, for the line that peek, next and current return *)
NoLine ==
  [raw |-> <<>>, indent |-> 0, content |-> <<>>, depth |-> 0, line_number |-> 0]

peek(cursor) ==
  IF cursor.index < Len(cursor.lines) THEN At(cursor.lines, cursor.index) ELSE NoLine

advance(cursor) ==
  IF cursor.index < Len(cursor.lines) THEN [cursor EXCEPT !.index = @ + 1] ELSE cursor

at_end(cursor) == cursor.index >= Len(cursor.lines)

current(cursor) == IF cursor.index > 0 THEN At(cursor.lines, cursor.index - 1) ELSE NoLine

(***************************************************************************)
(* tone/decode/validation.py.  The module is imported by decoders.py but   *)
(* is not among the sources; the four operators follow the specification:  *)
(* strict mode compares the observed count with the declared one, admits   *)
(* no further row or item at the same depth, and no blank line strictly    *)
(* between the first and the last row or item line.  Each returns TRUE     *)
(* where it raises.                                                        *)
(***************************************************************************)
assert_expected_count(actual, expected, options) == options.strict /\ actual # expected

validate_no_blank_lines_in_range(start_line, end_line, blank_lines, strict) ==
  /\ strict
  /\ \E i \in 1..Len(blank_lines) :
       start_line < blank_lines[i].line_number /\ blank_lines[i].line_number < end_line

validate_no_extra_list_items(cursor, item_depth) ==
  /\ ~at_end(cursor)
  /\ peek(cursor).depth = item_depth
  /\ StartsWith(peek(cursor).content, LIST_ITEM_PREFIX)

validate_no_extra_tabular_rows(cursor, row_depth) ==
  /\ ~at_end(cursor)
  /\ peek(cursor).depth = row_depth

(***************************************************************************)
(* tone/decode/decoders.py.  Every decoder takes the cursor and returns    *)
(* [val, cur]: the decoded value (or the exception raised) and the cursor  *)
(* as the call leaves it.                                                  *)
(***************************************************************************)
Ret(val, cursor) == [val |-> val, cur |-> cursor]

is_key_value_line(line) ==
  LET content == line.content
      closing_quote_index == find_closing_quote_(content, 0)
  IN IF StartsWith(content, <<DOUBLE_QUOTE>>)
     THEN IF closing_quote_index = -1 THEN FALSE
          ELSE closing_quote_index + 1 < Len(content)
               /\ At(content, closing_quote_index + 1) = COLON
     ELSE Contains(content, COLON)

(* the inline array returned without its count being compared *)
decode_inline_primitive_array_unchecked(header, inline_values, options) ==
  IF Strip(inline_values) = <<>> THEN VArr(<<>>)
  ELSE map_row_values_to_primitives_(parse_delimited_values_(inline_values, header.delimiter))

decode_inline_primitive_array(header, inline_values, options) ==
  LET values == parse_delimited_values_(inline_values, header.delimiter)
      primitives == map_row_values_to_primitives_(values)
  IN IF Strip(inline_values) = <<>>
     THEN IF assert_expected_count(0, header.length, options)
          THEN Raise("RangeError: inline array items") ELSE VArr(<<>>)
     ELSE IF IsError(primitives) THEN primitives
     ELSE IF assert_expected_count(Len(primitives.xs), header.length, options)
     THEN Raise("RangeError: inline array items")
     ELSE primitives

RECURSIVE DecodeObjectLoop(_, _, _, _)
RECURSIVE ListArrayLoop(_, _, _, _, _, _, _)
RECURSIVE TabularArrayLoop(_, _, _, _, _, _, _)
RECURSIVE ListItemFieldsLoop(_, _, _, _)

(* the while loop of decode_object, with the dict built so far *)
DecodeObjectLoop(cursor, base_depth, options, obj) ==
  LET line == peek(cursor)
      kv == decode_key_value_pair_(line, cursor, base_depth, options)
  IN IF at_end(cursor) THEN Ret(VObj(obj), cursor)
     ELSE IF line.depth < base_depth THEN Ret(VObj(obj), cursor)
     ELSE IF line.depth = base_depth
     THEN IF IsError(kv.val) THEN kv
          ELSE DecodeObjectLoop(kv.cur, base_depth, options,
                                DictSet(obj, kv.val.key, kv.val.value))
     ELSE Ret(VObj(obj), cursor)

decode_object(cursor, base_depth, options) ==
  DecodeObjectLoop(cursor, base_depth, options, <<>>)

KeyValue(key, value, followDepth) ==
  [t |-> "kv", key |-> key, value |-> value, followDepth |-> followDepth]

decode_key_value(content, cursor, base_depth, options) ==
  LET array_header == parse_array_header_line_(content, DEFAULT_DELIMITER)
      arr == decode_array_from_header_(array_header.header, array_header.inlineValues,
                                      cursor, base_depth, options)
      kt == parse_key_token_(content, 0)
      rest == Strip(SliceFrom(content, kt.end))
      next_line == peek(cursor)
      nested == decode_object_(cursor, base_depth + 1, options)
      value == parse_primitive_token_(rest)
  IN IF IsError(array_header) THEN Ret(array_header, cursor)
     ELSE IF array_header.t = "header" /\ Truthy(array_header.header.key)
     THEN IF IsError(arr.val) THEN arr
          ELSE Ret(KeyValue(array_header.header.key.k, arr.val, base_depth + 1), arr.cur)
     ELSE IF ~kt.ok THEN Ret(Raise("SyntaxError: key"), cursor)
     ELSE IF rest = <<>>
     THEN IF ~at_end(cursor) /\ next_line.depth > base_depth
          THEN IF IsError(nested.val) THEN nested
               ELSE Ret(KeyValue(kt.key, nested.val, base_depth + 1), nested.cur)
          ELSE Ret(KeyValue(kt.key, VObj(<<>>), base_depth + 1), cursor)
     ELSE IF IsError(value) THEN Ret(value, cursor)
     ELSE Ret(KeyValue(kt.key, value, base_depth + 1), cursor)

decode_key_value_pair(line, cursor, base_depth, options) ==
  decode_key_value_(line.content, advance(cursor), base_depth, options)

decode_array_from_header(header, inline_values, cursor, base_depth, options) ==
  IF inline_values # <<>>
  THEN Ret(decode_inline_primitive_array_(header, inline_values, options), cursor)
  ELSE IF Len(header.fields) > 0
  THEN decode_tabular_array_(header, cursor, base_depth, options)
  ELSE decode_list_array_(header, cursor, base_depth, options)

(* the while loop of decode_list_array; start_line and end_line are 0 for  *)
(* None                                                                    *)
ListArrayLoop(header, cursor, item_depth, options, items, start_line, end_line) ==
  LET line == peek(cursor)
      item == decode_list_item_(cursor, item_depth, header.delimiter, options)
      current_line == current(item.cur)
      done == [val |-> VArr(items), cur |-> cursor, start_line |-> start_line,
               end_line |-> end_line]
  IN IF at_end(cursor) \/ ~(Len(items) < header.length) THEN done
     ELSE IF line.depth < item_depth THEN done
     ELSE IF line.depth = item_depth /\ StartsWith(line.content, LIST_ITEM_PREFIX)
     THEN IF IsError(item.val)
          THEN [val |-> item.val, cur |-> item.cur, start_line |-> 0, end_line |-> 0]
          ELSE ListArrayLoop(header, item.cur, item_depth, options,
                             Append(items, item.val),
                             IF start_line = 0 THEN line.line_number ELSE start_line,
                             IF current_line.line_number # 0
                             THEN current_line.line_number ELSE line.line_number)
     ELSE done

decode_list_array(header, cursor, base_depth, options) ==
  LET item_depth == base_depth + 1
      loop == ListArrayLoop(header, cursor, item_depth, options, <<>>, 0, 0)
  IN IF IsError(loop.val) THEN Ret(loop.val, loop.cur)
     ELSE IF assert_expected_count(Len(loop.val.xs), header.length, options)
     THEN Ret(Raise("RangeError: list array items"), loop.cur)
     ELSE IF options.strict /\ loop.start_line # 0 /\ loop.end_line # 0
             /\ validate_no_blank_lines_in_range(loop.start_line, loop.end_line,
                                                 loop.cur.blank_lines, options.strict)
     THEN Ret(Raise("SyntaxError: blank line in list array"), loop.cur)
     ELSE IF options.strict /\ validate_no_extra_list_items(loop.cur, item_depth)
     THEN Ret(Raise("RangeError: extra list items"), loop.cur)
     ELSE Ret(loop.val, loop.cur)

(* obj = {}; for i in range(len(fields)): obj[fields[i]] = primitives[i] *)
RECURSIVE RowObject(_, _, _, _)
RowObject(fields, primitives, i, obj) ==
  IF ~(i < Len(fields)) THEN obj
  ELSE RowObject(fields, primitives, i + 1, DictSet(obj, At(fields, i), At(primitives, i)))

(* the while loop of decode_tabular_array *)
TabularArrayLoop(header, cursor, row_depth, options, objects, start_line, end_line) ==
  LET line == peek(cursor)
      values == parse_delimited_values_(line.content, header.delimiter)
      primitives == map_row_values_to_primitives_(values)
      done == [val |-> VArr(objects), cur |-> cursor, start_line |-> start_line,
               end_line |-> end_line]
      failed(e) == [val |-> e, cur |-> advance(cursor), start_line |-> 0, end_line |-> 0]
  IN IF at_end(cursor) \/ ~(Len(objects) < header.length) THEN done
     ELSE IF line.depth < row_depth THEN done
     ELSE IF line.depth = row_depth
     THEN IF assert_expected_count(Len(values), Len(header.fields), options)
          THEN failed(Raise("RangeError: tabular row values"))
          ELSE IF IsError(primitives) THEN failed(primitives)
          ELSE IF Len(primitives.xs) < Len(header.fields)
          THEN failed(Raise("IndexError: list index out of range"))
          ELSE TabularArrayLoop(header, advance(cursor), row_depth, options,
                                Append(objects,
                                       VObj(RowObject(header.fields, primitives.xs, 0, <<>>))),
                                IF start_line = 0 THEN line.line_number ELSE start_line,
                                line.line_number)
     ELSE done

decode_tabular_array(header, cursor, base_depth, options) ==
  LET row_depth == base_depth + 1
      loop == TabularArrayLoop(header, cursor, row_depth, options, <<>>, 0, 0)
  IN IF IsError(loop.val) THEN Ret(loop.val, loop.cur)
     ELSE IF assert_expected_count(Len(loop.val.xs), header.length, options)
     THEN Ret(Raise("RangeError: tabular rows"), loop.cur)
     ELSE IF options.strict /\ loop.start_line # 0 /\ loop.end_line # 0
             /\ validate_no_blank_lines_in_range(loop.start_line, loop.end_line,
                                                 loop.cur.blank_lines, options.strict)
     THEN Ret(Raise("SyntaxError: blank line in tabular array"), loop.cur)
     ELSE IF options.strict /\ validate_no_extra_tabular_rows(loop.cur, row_depth)
     THEN Ret(Raise("RangeError: extra tabular rows"), loop.cur)
     ELSE Ret(loop.val, loop.cur)

decode_list_item(cursor, base_depth, active_delimiter, options) ==
  LET line == peek(cursor)
      c1 == advance(cursor)
      after_hyphen == SliceFrom(line.content, Len(LIST_ITEM_PREFIX))
      array_header == parse_array_header_line_(after_hyphen, DEFAULT_DELIMITER)
      prim == parse_primitive_token_(after_hyphen)
  IN IF at_end(cursor) THEN Ret(Raise("ReferenceError: expected list item"), cursor)
     ELSE IF is_array_header_after_hyphen_(after_hyphen) /\ IsError(array_header)
     THEN Ret(array_header, c1)
     ELSE IF is_array_header_after_hyphen_(after_hyphen) /\ array_header.t = "header"
     THEN decode_array_from_header_(array_header.header, array_header.inlineValues, c1,
                                   base_depth, options)
     ELSE IF is_object_first_field_after_hyphen_(after_hyphen)
     THEN decode_object_from_list_item_(line, c1, base_depth, options)
     ELSE Ret(prim, c1)

(* the while loop of decode_object_from_list_item *)
ListItemFieldsLoop(cursor, followDepth, options, obj) ==
  LET line == peek(cursor)
      kv == decode_key_value_pair_(line, cursor, followDepth, options)
  IN IF at_end(cursor) THEN Ret(VObj(obj), cursor)
     ELSE IF line.depth < followDepth THEN Ret(VObj(obj), cursor)
     ELSE IF line.depth = followDepth /\ ~StartsWith(line.content, LIST_ITEM_PREFIX)
     THEN IF IsError(kv.val) THEN kv
          ELSE ListItemFieldsLoop(kv.cur, followDepth, options,
                                  DictSet(obj, kv.val.key, kv.val.value))
     ELSE Ret(VObj(obj), cursor)

decode_object_from_list_item(first_line, cursor, base_depth, options) ==
  LET after_hyphen == SliceFrom(first_line.content, Len(LIST_ITEM_PREFIX))
      result == decode_key_value_(after_hyphen, cursor, base_depth, options)
  IN IF IsError(result.val) THEN result
     ELSE ListItemFieldsLoop(result.cur, result.val.followDepth, options,
                             <<[k |-> result.val.key, v |-> result.val.value]>>)

decode_value_from_lines(cursor, options) ==
  LET first == peek(cursor)
      header_info == parse_array_header_line_(first.content, DEFAULT_DELIMITER)
  IN IF at_end(cursor) THEN Ret(Raise("ReferenceError: no content to decode"), cursor)
     ELSE IF is_array_header_after_hyphen_(first.content) /\ IsError(header_info)
     THEN Ret(header_info, cursor)
     ELSE IF is_array_header_after_hyphen_(first.content) /\ header_info.t = "header"
     THEN decode_array_from_header_(header_info.header, header_info.inlineValues,
                                   advance(cursor), 0, options)
     ELSE IF Len(cursor.lines) = 1 /\ ~is_key_value_line_(first)
     THEN Ret(parse_primitive_token_(Strip(first.content)), cursor)
     ELSE decode_object_(cursor, 0, options)

(***************************************************************************)
(* tone/encode/normalize.py: normalize_value.  Besides the JSON values a   *)
(* host value is an int too large for a double (written by its sign and    *)
(* its power of two), a float that is -0.0, nan, inf or -inf (a float is   *)
(* written by its repr), a datetime, a set (in iteration order), a dict of *)
(* any class with keys of any type, or a value of another type.  A mapping *)
(* VObj is a plain dict whose keys are distinct strings.                   *)
(***************************************************************************)
VBigInt(neg, exp2) == [t |-> "int", neg |-> neg, exp2 |-> exp2]
VDatetime(year, month, day, hour, minute, second) ==
  [t |-> "datetime", year |-> year, month |-> month, day |-> day,
   hour |-> hour, minute |-> minute, second |-> second]
VSet(xs) == [t |-> "set", xs |-> xs]
VDict(cls, ps) == [t |-> "dict", cls |-> cls, ps |-> ps]
VOther(cls) == [t |-> "other", cls |-> cls]

(* the least power of two that float(int) cannot hold *)
FloatMaxExp2 == 1024

IsBigInt(value) == value.t = "int" /\ "exp2" \in DOMAIN value

(* value == 0 and math.copysign(1, value) < 0 *)
IsNegativeZero(value) == value.t = "float" /\ value.f = <<"-", "0", ".", "0">>

(* math.isfinite(value) converts an int to a float first, which raises     *)
(* OverflowError from 2**1024 on                                           *)
isfinite_raises(value) == IsBigInt(value) /\ value.exp2 >= FloatMaxExp2

isfinite(value) ==
  IF value.t = "float"
  THEN value.f \notin {<<"n", "a", "n">>, <<"i", "n", "f">>, <<"-", "i", "n", "f">>}
  ELSE TRUE

ZeroPad(n, width) == Repeat(<<"0">>, width - Len(NatStr(n))) \o NatStr(n)

(* datetime.isoformat() of a naive datetime with no microseconds *)
isoformat(value) ==
  ZeroPad(value.year, 4) \o <<"-">> \o ZeroPad(value.month, 2) \o <<"-">>
    \o ZeroPad(value.day, 2) \o <<"T">> \o ZeroPad(value.hour, 2) \o <<":">>
    \o ZeroPad(value.minute, 2) \o <<":">> \o ZeroPad(value.second, 2)

_is_plain_dict(value) == value.t = "map" \/ (value.t = "dict" /\ value.cls = "dict")

_is_valid_dict_key(key) == key.t \in {"str", "int", "float", "bool"}

(* str(key) of a key that _is_valid_dict_key admits *)
PyStr(key) ==
  CASE key.t = "str" -> key.s
    [] key.t = "int" -> IntStr(key.i)
    [] key.t = "float" -> key.f
    [] key.t = "bool" -> (IF key.b THEN <<"T", "r", "u", "e">> ELSE <<"F", "a", "l", "s", "e">>)

(* an exception raised while an element is normalized leaves the           *)
(* comprehension or the loop                                               *)
FirstError(vals) ==
  vals[CHOOSE i \in 1..Len(vals) : IsError(vals[i]) /\ \A j \in 1..(i - 1) : ~IsError(vals[j])]

NormalizeEach(xs) ==
  LET vals == [i \in 1..Len(xs) |-> normalize_value_(xs[i])]
  IN IF \E i \in 1..Len(vals) : IsError(vals[i]) THEN FirstError(vals) ELSE VArr(vals)

(* for key in value: if _is_valid_dict_key(key): result[str(key)] = ...    *)
RECURSIVE NormalizeDictFrom(_, _, _)
NormalizeDictFrom(ps, i, result) ==
  IF i > Len(ps) THEN VObj(result)
  ELSE IF ~_is_valid_dict_key(ps[i].k) THEN NormalizeDictFrom(ps, i + 1, result)
  ELSE LET v == normalize_value_(ps[i].v)
       IN IF IsError(v) THEN v
          ELSE NormalizeDictFrom(ps, i + 1, DictSet(result, PyStr(ps[i].k), v))

normalize_value(value) ==
  CASE value.t = "null" -> VNull
    [] value.t \in {"str", "bool"} -> value
    [] value.t \in {"int", "float"} ->
         IF IsNegativeZero(value) THEN VInt(0)
         ELSE IF isfinite_raises(value)
         THEN Raise("OverflowError: int too large to convert to float")
         ELSE IF ~isfinite(value) THEN VNull
         ELSE value
    [] value.t = "datetime" -> VStr(isoformat(value))
    [] value.t = "seq" -> NormalizeEach(value.xs)
    [] value.t = "set" -> NormalizeEach(value.xs)
    [] value.t = "map" ->
         NormalizeDictFrom([i \in 1..Len(value.ps) |->
                              [k |-> VStr(value.ps[i].k), v |-> value.ps[i].v]], 1, <<>>)
    [] value.t = "dict" ->
         IF _is_plain_dict(value) THEN NormalizeDictFrom(value.ps, 1, <<>>) ELSE VNull
    [] OTHER -> VNull

(***************************************************************************)
(* tone/_core.py                                                           *)
(***************************************************************************)
encode(value, options) ==
  LET normalized_value == normalize_value_(value)
  IN IF IsError(normalized_value) THEN normalized_value
     ELSE encode_value_(normalized_value, options)

(* [val, cur] of decode_value_from_lines, or the exception of the scanner  *)
(* or of the empty-input check, with the cursor it was raised at           *)
decode_run(input_str, options) ==
  LET scan_result == to_parsed_lines_(input_str, options.indent, options.strict)
  IN IF IsError(scan_result) THEN Ret(scan_result, LineCursor(<<>>, <<>>))
     ELSE IF Len(scan_result.lines) = 0
     THEN Ret(Raise("ValueError: cannot decode empty input"), LineCursor(<<>>, <<>>))
     ELSE decode_value_from_lines_(LineCursor(scan_result.lines, scan_result.blank_lines),
                                  options)

(* _resolve_decode_options with no indent given *)
DecodeOptions(strict) == [indent |-> 2, strict |-> strict]

decode(input_str, options) == decode_run_(input_str, options).val

(***************************************************************************)
(* tone/decode/decoders.py: one pass through the body of each while loop.  *)
(* locals holds the collection built so far (val), the cursor (cur), the   *)
(* line peeked by the test of the loop (line), and start_line and end_line *)
(* (0 for None); the result is the locals after the body and "loop" where  *)
(* the loop goes round again, "done" where an exception leaves it.         *)
(***************************************************************************)
(* key, value = decode_key_value_pair(line, cursor, base_depth, options);  *)
(* obj[key] = value, in decode_object and in decode_object_from_list_item  *)
FieldLoopBody(locals, depth, options) ==
  LET kv == decode_key_value_pair_(locals.line, locals.cur, depth, options)
  IN IF IsError(kv.val)
     THEN [locals |-> [locals EXCEPT !.val = kv.val, !.cur = kv.cur], next |-> "done"]
     ELSE [locals |-> [locals EXCEPT
                         !.val = VObj(DictSet(locals.val.ps, kv.val.key, kv.val.value)),
                         !.cur = kv.cur],
           next |-> "loop"]

(* the body of the loop of decode_list_array *)
ListArrayLoopBody(header, locals, item_depth, options) ==
  LET item == decode_list_item_(locals.cur, item_depth, header.delimiter, options)
      current_line == current(item.cur)
  IN IF IsError(item.val)
     THEN [locals |-> [locals EXCEPT !.val = item.val, !.cur = item.cur], next |-> "done"]
     ELSE [locals |-> [locals EXCEPT
                         !.val = VArr(Append(locals.val.xs, item.val)),
                         !.cur = item.cur,
                         !.start_line = IF @ = 0 THEN locals.line.line_number ELSE @,
                         !.end_line = IF current_line.line_number # 0
                                      THEN current_line.line_number
                                      ELSE locals.line.line_number],
           next |-> "loop"]

(* the body of the loop of decode_tabular_array with cursor.advance() left *)
(* out                                                                     *)
TabularArrayLoopBodyWithoutAdvance(header, locals, row_depth, options) ==
  LET values == parse_delimited_values_(locals.line.content, header.delimiter)
      primitives == map_row_values_to_primitives_(values)
      failed(e) == [locals |-> [locals EXCEPT !.val = e], next |-> "done"]
  IN IF assert_expected_count(Len(values), Len(header.fields), options)
     THEN failed(Raise("RangeError: tabular row values"))
     ELSE IF IsError(primitives) THEN failed(primitives)
     ELSE IF Len(primitives.xs) < Len(header.fields)
     THEN failed(Raise("IndexError: list index out of range"))
     ELSE [locals |-> [locals EXCEPT
                         !.val = VArr(Append(locals.val.xs,
                                             VObj(RowObject(header.fields, primitives.xs, 0, <<>>)))),
                         !.start_line = IF @ = 0 THEN locals.line.line_number ELSE @,
                         !.end_line = locals.line.line_number],
           next |-> "loop"]

(* the body of the loop of decode_tabular_array *)
TabularArrayLoopBody(header, locals, row_depth, options) ==
  LET values == parse_delimited_values_(locals.line.content, header.delimiter)
      primitives == map_row_values_to_primitives_(values)
      failed(e) == [locals |-> [locals EXCEPT !.val = e, !.cur = advance(locals.cur)],
                    next |-> "done"]
  IN IF assert_expected_count(Len(values), Len(header.fields), options)
     THEN failed(Raise("RangeError: tabular row values"))
     ELSE IF IsError(primitives) THEN failed(primitives)
     ELSE IF Len(primitives.xs) < Len(header.fields)
     THEN failed(Raise("IndexError: list index out of range"))
     ELSE [locals |-> [locals EXCEPT
                         !.val = VArr(Append(locals.val.xs,
                                             VObj(RowObject(header.fields, primitives.xs, 0, <<>>)))),
                         !.cur = advance(locals.cur),
                         !.start_line = IF @ = 0 THEN locals.line.line_number ELSE @,
                         !.end_line = locals.line.line_number],
           next |-> "loop"]

(* the locals of a loop entered on the parsed lines of source with the     *)
(* cursor at index: the empty collection, the cursor, no line peeked yet   *)
LoopEntry(op, source, strict, index) ==
  LET scan_result == to_parsed_lines_(source, 2, strict)
  IN [val |-> IF op \in {"decode_list_array", "decode_tabular_array"}
              THEN VArr(<<>>) ELSE VObj(<<>>),
      cur |-> [LineCursor(scan_result.lines, scan_result.blank_lines)
                 EXCEPT !.index = index],
      line |-> NoLine, start_line |-> 0, end_line |-> 0]

(***************************************************************************)
(* tone/stream.py: encode_stream and its helpers.  options is the resolved *)
(* options record; a chunk is the str the generator yields.                *)
(***************************************************************************)
NormalizeItems(items) == [i \in 1..Len(items) |-> normalize_value_(items[i])]

is_tabular_items(items) ==
  IF items = <<>> \/ ~(\A i \in 1..Len(items) : is_json_object(items[i])) THEN FALSE
  ELSE LET first_keys == Keys(items[1].ps)
       IN /\ \A i \in 1..Len(items) : Keys(items[i].ps) = first_keys
          /\ \A i \in 1..Len(items) : \A j \in 1..Len(first_keys) :
               is_json_primitive(Get(items[i].ps, first_keys[j]))

(* the rows of _encode_tabular_body from item i on *)
RECURSIVE TabularBodyLines(_, _, _, _)
TabularBodyLines(items, header_fields, options, i) ==
  IF i > Len(items) THEN <<>>
  ELSE LET values == [j \in 1..Len(header_fields) |-> Get(items[i].ps, header_fields[j])]
           row == encode_and_join_primitives_(values, options.delimiter)
       IN <<Repeat(<<" ">>, options.indent) \o row>>
          \o TabularBodyLines(items, header_fields, options, i + 1)

_encode_tabular_body(items, options) ==
  IF items = <<>> THEN <<>>
  ELSE Join(TabularBodyLines(items, Keys(items[1].ps), options, 1), <<NEWLINE>>)

_encode_tabular_chunk(items, options) ==
  IF items = <<>>
  THEN format_header_(0, NoKey, <<>>, options.delimiter, options.length_marker)
  ELSE LET header_line ==
             format_header_(Len(items), NoKey, Keys(items[1].ps), options.delimiter,
                            options.length_marker) \o <<":">>
       IN header_line \o <<NEWLINE>> \o _encode_tabular_body_(items, options)

_encode_object_list_item(writer, obj, depth, options) ==
  encode_object_as_list_item_(obj, writer, depth, options)

_encode_array_list_item(writer, arr, depth, options) ==
  LET header == format_header_(Len(arr.xs), NoKey, <<>>, options.delimiter,
                               options.length_marker)
  IN IF (IF arr.xs # <<>> THEN is_json_primitive(arr.xs[1]) ELSE FALSE)
     THEN push_list_item(writer, depth,
                         header \o <<":", " ">>
                         \o encode_and_join_primitives_(arr.xs, options.delimiter))
     ELSE push_list_item(writer, depth, header \o <<":">>)

(* the for loop of _encode_list_body from item i on *)
RECURSIVE ListBodyFrom(_, _, _, _)
ListBodyFrom(items, writer, options, i) ==
  IF i > Len(items) THEN writer
  ELSE LET item == items[i]
           indent_level == 1
       IN ListBodyFrom(items,
            IF is_json_primitive(item)
            THEN push_list_item(writer, indent_level, encode_primitive_(item, options.delimiter))
            ELSE IF is_json_object(item)
            THEN _encode_object_list_item_(writer, item, indent_level, options)
            ELSE IF is_json_array(item)
            THEN _encode_array_list_item_(writer, item, indent_level, options)
            ELSE writer,
            options, i + 1)

_encode_list_body(items, options) ==
  to_string(ListBodyFrom(items, LineWriter(options.indent), options, 1))

_encode_list_chunk(items, options, include_header) ==
  IF items = <<>>
  THEN format_header_(0, NoKey, <<>>, options.delimiter, options.length_marker) \o <<":">>
  ELSE LET header_line ==
             format_header_(Len(items), NoKey, <<>>, options.delimiter,
                            options.length_marker) \o <<":">>
           body == _encode_list_body_(items, options)
       IN IF include_header THEN header_line \o <<NEWLINE>> \o body ELSE body

_encode_items_chunk(items, options, header_written) ==
  IF items = <<>> THEN <<>>
  ELSE IF is_tabular_items_(items) THEN _encode_tabular_chunk_(items, options)
  ELSE _encode_list_chunk_(items, options, ~header_written)

_encode_items_body(items, options, header_written) ==
  LET normalized == NormalizeItems(items)
  IN IF is_tabular_items_(normalized) THEN _encode_tabular_body_(normalized, options)
     ELSE _encode_list_body_(normalized, options)

(* the chunk encode_stream yields for a full or a last buffer *)
StreamChunk(buffer, options, header_written) ==
  IF ~header_written
  THEN _encode_items_chunk_(NormalizeItems(buffer), options, header_written)
  ELSE _encode_items_body_(buffer, options, header_written)

(***************************************************************************)
(* The call of function f on the arguments a                               *)
(***************************************************************************)
Call(f, a) ==
  CASE f = "PyInt" -> PyInt(a[1])
    [] f = "PyFloat" -> PyFloat(a[1])
    [] f = "is_numeric_like" -> is_numeric_like(a[1])
    [] f = "is_numeric_literal" -> is_numeric_literal(a[1])
    [] f = "escape_string" -> escape_string(a[1])
    [] f = "unescape_string" -> unescape_string(a[1])
    [] f = "find_closing_quote" -> find_closing_quote(a[1], a[2])
    [] f = "find_unquoted_char" -> find_unquoted_char(a[1], a[2], a[3])
    [] f = "is_safe_unquoted" -> is_safe_unquoted(a[1], a[2])
    [] f = "encode_string_literal" -> encode_string_literal(a[1], a[2])
    [] f = "encode_primitive" -> encode_primitive(a[1], a[2])
    [] f = "is_valid_unquoted_key" -> is_valid_unquoted_key(a[1])
    [] f = "encode_key" -> encode_key(a[1])
    [] f = "encode_and_join_primitives" -> encode_and_join_primitives(a[1], a[2])
    [] f = "format_header" -> format_header(a[1], a[2], a[3], a[4], a[5])
    [] f = "encode_inline_array_line" -> encode_inline_array_line(a[1], a[2], a[3], a[4])
    [] f = "is_tabular_array" -> is_tabular_array(a[1], a[2])
    [] f = "extract_tabular_header" -> extract_tabular_header(a[1])
    [] f = "write_tabular_rows" -> write_tabular_rows(a[1], a[2], a[3], a[4], a[5])
    [] f = "encode_array_of_objects_as_tabular" -> encode_array_of_objects_as_tabular(a[1], a[2], a[3], a[4], a[5], a[6])
    [] f = "encode_array_of_arrays_as_list_items" -> encode_array_of_arrays_as_list_items(a[1], a[2], a[3], a[4], a[5])
    [] f = "encode_object" -> encode_object(a[1], a[2], a[3], a[4])
    [] f = "encode_key_value_pair" -> encode_key_value_pair(a[1], a[2], a[3], a[4], a[5])
    [] f = "encode_array" -> encode_array(a[1], a[2], a[3], a[4], a[5])
    [] f = "encode_mixed_array_as_list_items" -> encode_mixed_array_as_list_items(a[1], a[2], a[3], a[4], a[5])
    [] f = "encode_object_as_list_item" -> encode_object_as_list_item(a[1], a[2], a[3], a[4])
    [] f = "encode_list_item_value" -> encode_list_item_value(a[1], a[2], a[3], a[4])
    [] f = "encode_value" -> encode_value(a[1], a[2])
    [] f = "parse_string_literal" -> parse_string_literal(a[1])
    [] f = "parse_primitive_token" -> parse_primitive_token(a[1])
    [] f = "parse_bracket_segment" -> parse_bracket_segment(a[1], a[2])
    [] f = "parse_delimited_values" -> parse_delimited_values(a[1], a[2])
    [] f = "map_row_values_to_primitives" -> map_row_values_to_primitives(a[1])
    [] f = "parse_array_header_line" -> parse_array_header_line(a[1], a[2])
    [] f = "parse_unquoted_key" -> parse_unquoted_key(a[1], a[2])
    [] f = "parse_quoted_key" -> parse_quoted_key(a[1], a[2])
    [] f = "parse_key_token" -> parse_key_token(a[1], a[2])
    [] f = "is_array_header_after_hyphen" -> is_array_header_after_hyphen(a[1])
    [] f = "is_object_first_field_after_hyphen" -> is_object_first_field_after_hyphen(a[1])
    [] f = "to_parsed_lines" -> to_parsed_lines(a[1], a[2], a[3])
    [] f = "is_key_value_line" -> is_key_value_line(a[1])
    [] f = "decode_inline_primitive_array" -> decode_inline_primitive_array(a[1], a[2], a[3])
    [] f = "decode_object" -> decode_object(a[1], a[2], a[3])
    [] f = "decode_key_value" -> decode_key_value(a[1], a[2], a[3], a[4])
    [] f = "decode_key_value_pair" -> decode_key_value_pair(a[1], a[2], a[3], a[4])
    [] f = "decode_array_from_header" -> decode_array_from_header(a[1], a[2], a[3], a[4], a[5])
    [] f = "decode_list_array" -> decode_list_array(a[1], a[2], a[3], a[4])
    [] f = "decode_tabular_array" -> decode_tabular_array(a[1], a[2], a[3], a[4])
    [] f = "decode_list_item" -> decode_list_item(a[1], a[2], a[3], a[4])
    [] f = "decode_object_from_list_item" -> decode_object_from_list_item(a[1], a[2], a[3], a[4])
    [] f = "decode_value_from_lines" -> decode_value_from_lines(a[1], a[2])
    [] f = "normalize_value" -> normalize_value(a[1])
    [] f = "encode" -> encode(a[1], a[2])
    [] f = "decode_run" -> decode_run(a[1], a[2])
    [] f = "decode" -> decode(a[1], a[2])
    [] f = "is_tabular_items" -> is_tabular_items(a[1])
    [] f = "_encode_tabular_body" -> _encode_tabular_body(a[1], a[2])
    [] f = "_encode_tabular_chunk" -> _encode_tabular_chunk(a[1], a[2])
    [] f = "_encode_object_list_item" -> _encode_object_list_item(a[1], a[2], a[3], a[4])
    [] f = "_encode_array_list_item" -> _encode_array_list_item(a[1], a[2], a[3], a[4])
    [] f = "_encode_list_body" -> _encode_list_body(a[1], a[2])
    [] f = "_encode_list_chunk" -> _encode_list_chunk(a[1], a[2], a[3])
    [] f = "_encode_items_chunk" -> _encode_items_chunk(a[1], a[2], a[3])
    [] f = "_encode_items_body" -> _encode_items_body(a[1], a[2], a[3])
    [] f = "FieldLoopBody" -> FieldLoopBody(a[1], a[2], a[3])
    [] f = "ListArrayLoopBody" -> ListArrayLoopBody(a[1], a[2], a[3], a[4])
    [] f = "TabularArrayLoopBody" -> TabularArrayLoopBody(a[1], a[2], a[3], a[4])
    [] f = "LoopEntry" -> LoopEntry(a[1], a[2], a[3], a[4])
    [] f = "StreamChunk" -> StreamChunk(a[1], a[2], a[3])

(***************************************************************************)
(* Bounded input sets                                                      *)
(***************************************************************************)
(* all sequences over alphabet of length 0..n *)
RECURSIVE SeqsUpTo(_, _)
SeqsUpTo(alphabet, n) ==
  IF n = 0 THEN {<<>>}
  ELSE LET shorter == SeqsUpTo(alphabet, n - 1)
       IN shorter \cup {Append(x, c) : x \in {y \in shorter : Len(y) = n - 1}, c \in alphabet}

Delimiters == {COMMA, TAB, PIPE}

MaxStrLen == 2
MaxNumLen == 3
MaxInt == 12
MaxTokenLen == 4

(* the characters the quoting rules name, and one of each other kind *)
StrAlphabet ==
  {"a", "5", "0", "-", ".", " ", ",", "|", "\t", ":", "\"", "\\", "[", "]", "{", "}",
   "\n", "\r"}

(* strings that look like numbers to one side of the codec or to both *)
NumAlphabet == {"5", "0", "-", "+", ".", "e", "_", "a"}

LongStrings ==
  {TRUE_LITERAL, FALSE_LITERAL, NULL_LITERAL, <<"t", "r", "u", "e", "5">>,
   <<"a", " ", "b">>, <<"1", "e", "-", "5">>, <<"-", "0", ".", "5", "E", "+", "1">>,
   <<"9", "e", "9", "9", "9">>, <<".", "5", "e", "9", "9", "9">>, <<"i", "n", "f">>,
   <<"n", "a", "n">>}

Strings == SeqsUpTo(StrAlphabet, MaxStrLen) \cup SeqsUpTo(NumAlphabet, MaxNumLen)
             \cup LongStrings

Primitives ==
  {VNull, VBool(TRUE), VBool(FALSE)} \cup {VInt(i) : i \in (-MaxInt)..MaxInt}
    \cup {VStr(str) : str \in Strings}

TokenAlphabet == {"\"", "\\", "n", "x", " "}

Tokens == SeqsUpTo(TokenAlphabet, MaxTokenLen)

(***************************************************************************)
(* SpecPrim: the primitive codec.  One call per behaviour: encode_primitive *)
(* followed by parse_primitive_token on its output, encode_string_literal,  *)
(* or parse_primitive_token on a raw token.                                 *)
(***************************************************************************)
PrimCall(op, v, s, d) == [op |-> op, v |-> v, s |-> s, d |-> d]

PrimCalls ==
  {PrimCall("encode_primitive", v, <<>>, d) : v \in Primitives, d \in Delimiters}
    \cup {PrimCall("encode_string_literal", VNull, str, d) : str \in Strings, d \in Delimiters}
    \cup {PrimCall("parse_primitive_token", VNull, tok, COMMA) : tok \in Tokens}

InitPrim == pc = "call" /\ arg \in PrimCalls /\ text = <<>> /\ res = VNull /\ NoAdapters

EncodePrimitive ==
  /\ pc = "call" /\ arg.op = "encode_primitive"
  /\ text' = encode_primitive_(arg.v, arg.d)
  /\ pc' = "encoded"
  /\ UNCHANGED <<arg, res, adapters>>

EncodeStringLiteral ==
  /\ pc = "call" /\ arg.op = "encode_string_literal"
  /\ text' = encode_string_literal_(arg.s, arg.d)
  /\ pc' = "done"
  /\ UNCHANGED <<arg, res, adapters>>

ParseEncodedPrimitive ==
  /\ pc = "encoded"
  /\ res' = parse_primitive_token_(text)
  /\ pc' = "done"
  /\ UNCHANGED <<arg, text, adapters>>

ParsePrimitiveToken ==
  /\ pc = "call" /\ arg.op = "parse_primitive_token"
  /\ res' = parse_primitive_token_(arg.s)
  /\ pc' = "done"
  /\ UNCHANGED <<arg, text, adapters>>

NextPrim ==
  EncodePrimitive \/ EncodeStringLiteral \/ ParseEncodedPrimitive \/ ParsePrimitiveToken

SpecPrim == InitPrim /\ [][NextPrim]_vars

(***************************************************************************)
(* Claims about the primitive codec (SpecPrim)                             *)
(***************************************************************************)
(* C3: a primitive that is encoded and then parsed comes back as the same  *)
(* primitive of the same kind, under every delimiter.                      *)
PrimitiveRoundTrip ==
  (pc = "done" /\ arg.op = "encode_primitive") => res = arg.v

(* the safe-to-leave-unquoted condition as the quoting rule states it,     *)
(* character by character                                                  *)
QuotingRuleSafe(S, d) ==
  /\ S # <<>>
  /\ S[1] \notin Whitespace /\ S[Len(S)] \notin Whitespace
  /\ S \notin {TRUE_LITERAL, FALSE_LITERAL, NULL_LITERAL}
  /\ ~is_numeric_like_(S)
  /\ \A i \in 1..Len(S) :
       S[i] \notin {":", "[", "]", "{", "}", "\"", "\\", "\n", "\r", "\t", d}
  /\ S[1] # "-"

(* the two-character escape of the five escaped characters *)
EscapedChar(c) ==
  CASE c = "\\" -> <<"\\", "\\">>
    [] c = "\"" -> <<"\\", "\"">>
    [] c = "\n" -> <<"\\", "n">>
    [] c = "\r" -> <<"\\", "r">>
    [] c = "\t" -> <<"\\", "t">>
    [] OTHER -> <<c>>

RECURSIVE EscapedString(_)
EscapedString(S) == IF S = <<>> THEN <<>> ELSE EscapedChar(Head(S)) \o EscapedString(Tail(S))

(* C4: encode_string_literal(S, d) is S itself when S is safe to leave      *)
(* unquoted under d, and otherwise S escaped between two double quotes.    *)
QuotingFaithfulness ==
  (pc = "done" /\ arg.op = "encode_string_literal") =>
    text = IF QuotingRuleSafe(arg.s, arg.d) THEN arg.s
           ELSE <<"\"">> \o EscapedString(arg.s) \o <<"\"">>

(* a string holding the active delimiter (here the pipe) has been quoted   *)
QuotingWitness ==
  /\ pc = "done" /\ arg.op = "encode_string_literal"
  /\ arg.s = <<"a", "|">> /\ arg.d = PIPE
  /\ text = <<"\"", "a", "|", "\"">>

(* the body of a quoted token is a run of plain characters and of          *)
(* backslash escapes n, t, r, backslash, double quote; its value           *)
RECURSIVE QuotedBodyValue(_)
QuotedBodyValue(body) ==
  IF body = <<>> THEN [ok |-> TRUE, s |-> <<>>]
  ELSE IF Head(body) = "\""  THEN [ok |-> FALSE, s |-> <<>>]
  ELSE IF Head(body) = "\\"
  THEN IF Len(body) < 2 \/ body[2] \notin {"n", "t", "r", "\\", "\""}
       THEN [ok |-> FALSE, s |-> <<>>]
       ELSE LET rest == QuotedBodyValue(Tail(Tail(body)))
                c == CASE body[2] = "n" -> "\n" [] body[2] = "t" -> "\t"
                       [] body[2] = "r" -> "\r" [] OTHER -> body[2]
            IN [ok |-> rest.ok, s |-> <<c>> \o rest.s]
  ELSE LET rest == QuotedBodyValue(Tail(body))
       IN [ok |-> rest.ok, s |-> <<Head(body)>> \o rest.s]

(* the token (trimmed, as every caller passes it) ends with the first      *)
(* unescaped double quote after the opening one and has a valid body       *)
WellQuoted(tok) ==
  /\ Len(tok) >= 2
  /\ tok[Len(tok)] = "\""
  /\ QuotedBodyValue(SubSeq(tok, 2, Len(tok) - 1)).ok

(* C10: a token that begins with a double quote parses to a string exactly *)
(* when its first unescaped closing quote is its last character and every  *)
(* backslash inside is followed by n, t, r, backslash or double quote;     *)
(* every other such token raises.                                          *)
QuotedTokenValidation ==
  (pc = "done" /\ arg.op = "parse_primitive_token"
     /\ StartsWith(Strip(arg.s), <<"\"">>)) =>
    IF WellQuoted(Strip(arg.s))
    THEN res = VStr(QuotedBodyValue(SubSeq(Strip(arg.s), 2, Len(Strip(arg.s)) - 1)).s)
    ELSE IsError(res)

(* a token whose last quote is escaped by a backslash has been rejected *)
QuotedTokenWitness ==
  /\ pc = "done" /\ arg.op = "parse_primitive_token"
  /\ arg.s = <<"\"", "x", "\\", "\"">>
  /\ IsError(res)

(***************************************************************************)
(* SpecScan: the line scanner on every short source text                   *)
(***************************************************************************)
MaxSourceLen == 6

SourceAlphabet == {" ", "\t", "a", "\n"}

IndentSizes == {1, 2, 3}

ScanCalls ==
  [op : {"to_parsed_lines"}, s : SeqsUpTo(SourceAlphabet, MaxSourceLen),
   indent : IndentSizes, strict : BOOLEAN]

InitScan == pc = "call" /\ arg \in ScanCalls /\ text = <<>> /\ res = VNull /\ NoAdapters

ToParsedLines ==
  /\ pc = "call" /\ arg.op = "to_parsed_lines"
  /\ res' = to_parsed_lines_(arg.s, arg.indent, arg.strict)
  /\ pc' = "done"
  /\ UNCHANGED <<arg, text, adapters>>

NextScan == ToParsedLines

SpecScan == InitScan /\ [][NextScan]_vars

(* what the indentation rule says of one raw line *)
IsBlankLine(l) == \A i \in 1..Len(l) : l[i] \in Whitespace

LeadingSpaces(l) ==
  CHOOSE n \in 0..Len(l) :
    (\A i \in 1..n : l[i] = " ") /\ (n = Len(l) \/ l[n + 1] # " ")

TabInLeadingWhitespace(l) ==
  \E i \in 1..Len(l) : l[i] = "\t" /\ \A j \in 1..(i - 1) : l[j] \in {" ", "\t"}

BadIndentation(l, indent) ==
  TabInLeadingWhitespace(l) \/ LeadingSpaces(l) % indent # 0

NonBlankLineNumbers(raws) == {n \in 1..Len(raws) : ~IsBlankLine(raws[n])}

(* C8: the scanner raises exactly when strict mode is on and some          *)
(* non-blank line has a tab in its leading run of spaces and tabs or a     *)
(* leading space count that is no multiple of the indent; otherwise it     *)
(* returns the non-blank lines in order, each with depth                   *)
(* floor(leading spaces / indent).  Blank lines never raise.               *)
IndentationEnforcement ==
  (pc = "done" /\ arg.op = "to_parsed_lines") =>
    LET raws == Split(arg.s, "\n")
        nonblank == NonBlankLineNumbers(raws)
    IN /\ IsError(res) <=>
            (arg.strict /\ \E n \in nonblank : BadIndentation(raws[n], arg.indent))
       /\ ~IsError(res) =>
            /\ {res.lines[i].line_number : i \in 1..Len(res.lines)} = nonblank
            /\ \A i \in 1..Len(res.lines) :
                 /\ res.lines[i].depth =
                      LeadingSpaces(raws[res.lines[i].line_number]) \div arg.indent
                 /\ \A j \in 1..(i - 1) :
                      res.lines[j].line_number < res.lines[i].line_number

(* non-strict mode has accepted a line of three spaces under indent 2 at   *)
(* depth 1, after a whitespace-only line with a tab                        *)
IndentationWitness ==
  /\ pc = "done" /\ arg.op = "to_parsed_lines"
  /\ ~arg.strict /\ arg.indent = 2
  /\ arg.s = <<"\t", "\n", " ", " ", " ", "a">>
  /\ ~IsError(res) /\ Len(res.lines) = 1 /\ res.lines[1].depth = 1

(***************************************************************************)
(* SpecCodec: encode every small value tree under every option set, then   *)
(* decode the text with the same indent                                    *)
(***************************************************************************)
MaxNodes == 4

CodecLeaves == {VInt(1), VStr(<<"a", " ", "b">>), VStr(<<>>)}

(* a plain key, and one that is_valid_unquoted_key accepts although it ends *)
(* with a newline                                                          *)
CodecKeys == {<<"a">>, <<"a", "\n">>}

KeySeqs(n) ==
  {ks \in [1..n -> CodecKeys] : \A i \in 1..n : \A j \in 1..n : ks[i] = ks[j] => i = j}

ObjectsOver(forest) ==
  {VObj([i \in 1..Len(forest) |-> [k |-> ks[i], v |-> forest[i]]]) :
     ks \in KeySeqs(Len(forest))}

(* the value trees of exactly n nodes, and the sequences of trees of n     *)
(* nodes in all                                                            *)
RECURSIVE ValuesOfSize(_)
RECURSIVE ForestsOfSize(_)
ValuesOfSize(n) ==
  (IF n = 1 THEN CodecLeaves ELSE {})
    \cup {VArr(forest) : forest \in ForestsOfSize(n - 1)}
    \cup UNION {ObjectsOver(forest) : forest \in ForestsOfSize(n - 1)}

ForestsOfSize(n) ==
  IF n = 0 THEN {<<>>}
  ELSE UNION {{<<v>> \o forest : v \in ValuesOfSize(k), forest \in ForestsOfSize(n - k)} :
                k \in 1..n}

CodecValues == UNION {ValuesOfSize(n) : n \in 1..MaxNodes}

EncodeOptions ==
  [indent : {1, 2}, delimiter : Delimiters, length_marker : {<<>>, <<HASH>>}]

CodecCalls == [op : {"encode"}, v : CodecValues, options : EncodeOptions]

InitCodec == pc = "call" /\ arg \in CodecCalls /\ text = <<>> /\ res = VNull /\ NoAdapters

Encode ==
  /\ pc = "call" /\ arg.op = "encode"
  /\ text' = encode_(arg.v, arg.options)
  /\ pc' = "encoded"
  /\ UNCHANGED <<arg, res, adapters>>

Decode ==
  /\ pc = "encoded"
  /\ res' = decode_(text, [indent |-> arg.options.indent, strict |-> TRUE])
  /\ pc' = "done"
  /\ UNCHANGED <<arg, text, adapters>>

NextCodec == Encode \/ Decode

SpecCodec == InitCodec /\ [][NextCodec]_vars

(* C1: decoding what encode wrote returns the value that was encoded, key  *)
(* order included (mappings are ordered sequences of pairs).               *)
RoundTrip ==
  (pc = "done" /\ arg.op = "encode") => res = arg.v

(* C2: no line of the output ends with a space, the output does not end    *)
(* with a newline, and every line between newlines is a whole number of    *)
(* indent units of spaces followed by content that is not empty and does   *)
(* not begin with a space.                                                 *)
HygienicLine(line, indent) ==
  /\ line # <<>>
  /\ line[Len(line)] # SPACE
  /\ LeadingSpaces(line) < Len(line)
  /\ LeadingSpaces(line) % indent = 0

OutputHygiene ==
  (pc \in {"encoded", "done"} /\ arg.op = "encode") =>
    /\ ~EndsWith(text, <<NEWLINE>>)
    /\ text # <<>> =>
         \A i \in 1..Len(Split(text, NEWLINE)) :
           HygienicLine(Split(text, NEWLINE)[i], arg.options.indent)

(* an empty array under a key, nested one level down, has been written as  *)
(* a header with nothing after its colon                                   *)
OutputHygieneWitness ==
  /\ pc = "encoded" /\ arg.op = "encode"
  /\ arg.options = [indent |-> 2, delimiter |-> COMMA, length_marker |-> <<>>]
  /\ arg.v = VObj(<<[k |-> <<"a">>, v |-> VObj(<<[k |-> <<"a">>, v |-> VArr(<<>>)]>>)]>>)
  /\ text = <<"a", ":", "\n", " ", " ", "a", "[", "0", "]", ":">>

(***************************************************************************)
(* The decoder on documents built from a shape: the document is in text    *)
(* from the start, and decode runs on it with the default indent           *)
(***************************************************************************)
DecodeDocument ==
  /\ pc = "call" /\ arg.op = "decode"
  /\ res' = decode_(text, DecodeOptions(arg.strict))
  /\ pc' = "done"
  /\ UNCHANGED <<arg, text, adapters>>

NextDec == DecodeDocument

(***************************************************************************)
(* SpecQuoted: one key-value line whose value is a quoted string           *)
(***************************************************************************)
MaxQuotedLen == 4

QuotedAlphabet == {"x", "[", "1", "]", ":", ",", "\"", "{"}

QuotedLine(k, s) ==
  k \o <<COLON, SPACE>> \o <<DOUBLE_QUOTE>> \o escape_string_(s) \o <<DOUBLE_QUOTE>>

QuotedCalls ==
  [op : {"decode"}, k : {<<"k">>}, s : SeqsUpTo(QuotedAlphabet, MaxQuotedLen),
   strict : BOOLEAN]

InitQuoted ==
  pc = "call" /\ arg \in QuotedCalls /\ text = QuotedLine(arg.k, arg.s) /\ res = VNull /\ NoAdapters

SpecQuoted == InitQuoted /\ [][NextDec]_vars

(* C5: the line  k: "escape(s)"  decodes to the mapping with the one entry *)
(* k -> s, whatever characters s has.                                      *)
QuotedValueDecodes ==
  (pc = "done" /\ arg.op = "decode") =>
    res = VObj(<<[k |-> arg.k, v |-> VStr(arg.s)]>>)

(***************************************************************************)
(* SpecLength: an array header declaring n elements over m inline values,  *)
(* tabular rows or list items; the array is the root, the value of the key *)
(* k, or the one item of a root list                                       *)
(***************************************************************************)
MaxDeclared == 3
MaxObserved == 3

ArrayLayouts == {"inline", "tabular", "list"}

ArrayContexts == {"root", "key", "item"}

ElementTexts(m) == [i \in 1..m |-> NatStr(i)]

ArrayDocument(layout, ctx, n, m) ==
  LET outer == IF ctx = "item" THEN <<SPACE, SPACE>> ELSE <<>>
      header == (IF ctx = "key" THEN <<"k">> ELSE <<>>)
                  \o <<OPEN_BRACKET>> \o NatStr(n) \o <<CLOSE_BRACKET>>
                  \o (IF layout = "tabular" THEN <<OPEN_BRACE, "a", CLOSE_BRACE>> ELSE <<>>)
                  \o <<COLON>>
                  \o (IF layout = "inline" /\ m > 0
                      THEN <<SPACE>> \o Join(ElementTexts(m), <<COMMA>>) ELSE <<>>)
      first == IF ctx = "item"
               THEN <<<<"[", "1", "]", ":">>, outer \o LIST_ITEM_PREFIX \o header>>
               ELSE <<header>>
      below == [i \in 1..m |->
                  outer \o <<SPACE, SPACE>>
                    \o (IF layout = "list" THEN LIST_ITEM_PREFIX ELSE <<>>)
                    \o ElementTexts(m)[i]]
  IN Join(first \o (IF layout = "inline" THEN <<>> ELSE below), <<NEWLINE>>)

LengthCalls ==
  [op : {"decode"}, layout : ArrayLayouts, ctx : ArrayContexts, n : 0..MaxDeclared,
   m : 0..MaxObserved, strict : BOOLEAN]

InitLength ==
  /\ pc = "call" /\ arg \in LengthCalls
  /\ text = ArrayDocument(arg.layout, arg.ctx, arg.n, arg.m)
  /\ res = VNull /\ NoAdapters

SpecLength == InitLength /\ [][NextDec]_vars

(* the sequence decode returned for the array of the document *)
DecodedArray ==
  CASE arg.ctx = "root" -> res
    [] arg.ctx = "key" -> res.ps[1].v
    [] arg.ctx = "item" -> res.xs[1]

(* C6: in strict mode decode raises whenever the observed number of inline *)
(* values, rows or items differs from the declared length n, and a         *)
(* sequence it returns has exactly n elements.                             *)
LengthEnforcement ==
  (pc = "done" /\ arg.op = "decode" /\ arg.strict) =>
    /\ arg.m # arg.n => IsError(res)
    /\ ~IsError(res) =>
         /\ arg.ctx = "key" => (res.t = "map" /\ Len(res.ps) = 1 /\ res.ps[1].k = <<"k">>)
         /\ arg.ctx = "item" => (res.t = "seq" /\ Len(res.xs) = 1)
         /\ DecodedArray.t = "seq"
         /\ Len(DecodedArray.xs) = arg.n

(* strict decode has refused a list of three items under a header that     *)
(* declares two                                                            *)
LengthEnforcementWitness ==
  /\ pc = "done" /\ arg.op = "decode" /\ arg.strict
  /\ arg.layout = "list" /\ arg.ctx = "key" /\ arg.n = 2 /\ arg.m = 3
  /\ text = <<"k", "[", "2", "]", ":", "\n", " ", " ", "-", " ", "1", "\n",
              " ", " ", "-", " ", "2", "\n", " ", " ", "-", " ", "3">>
  /\ IsError(res)

(***************************************************************************)
(* SpecWidth: a root tabular array whose header is written with one        *)
(* delimiter and whose rows are written with another or the same           *)
(***************************************************************************)
MaxFields == 3
MaxWidth == 3
MaxRows == 2

FieldName(i) == <<"f">> \o NatStr(i)

RowWidths == UNION {[1..r -> 1..MaxWidth] : r \in 1..MaxRows}

DelimiterSuffix(d) == IF d = COMMA THEN <<>> ELSE <<d>>

TabularDocument(f, hd, rd, widths) ==
  LET header == <<OPEN_BRACKET>> \o NatStr(Len(widths)) \o DelimiterSuffix(hd)
                  \o <<CLOSE_BRACKET, OPEN_BRACE>>
                  \o Join([i \in 1..f |-> FieldName(i)], <<hd>>)
                  \o <<CLOSE_BRACE, COLON>>
      rows == [r \in 1..Len(widths) |->
                 <<SPACE, SPACE>> \o Join(ElementTexts(widths[r]), <<rd>>)]
  IN Join(<<header>> \o rows, <<NEWLINE>>)

WidthCalls ==
  [op : {"decode"}, f : 1..MaxFields, hd : Delimiters, rd : Delimiters,
   widths : RowWidths, strict : BOOLEAN]

InitWidth ==
  /\ pc = "call" /\ arg \in WidthCalls
  /\ text = TabularDocument(arg.f, arg.hd, arg.rd, arg.widths)
  /\ res = VNull /\ NoAdapters

SpecWidth == InitWidth /\ [][NextDec]_vars

(* the number of values the header's delimiter separates row r into *)
ObservedWidth(r) ==
  LET row == Split(text, NEWLINE)[r + 1]
  IN 1 + Cardinality({i \in 1..Len(row) : row[i] = arg.hd})

MaxBlanks == 2

BlankTemplates ==
  << [lines |-> << <<"a", ":", " ", "1">>, <<"b", ":", " ", "2">> >>,
      first |-> 0, last |-> 0],
     [lines |-> << <<"k", "[", "2", "]", ":">>,
                   <<" ", " ", "-", " ", "1">>,
                   <<" ", " ", "-", " ", "2">>,
                   <<"b", ":", " ", "2">> >>,
      first |-> 2, last |-> 3],
     [lines |-> << <<"k", "[", "2", "]", "{", "a", "}", ":">>,
                   <<" ", " ", "1">>,
                   <<" ", " ", "2">>,
                   <<"b", ":", " ", "2">> >>,
      first |-> 2, last |-> 3],
     [lines |-> << <<"k", "[", "2", "]", ":">>,
                   <<" ", " ", "-", " ", "a", ":", " ", "1">>,
                   <<" ", " ", " ", " ", "b", ":", " ", "2">>,
                   <<" ", " ", "-", " ", "a", ":", " ", "3">>,
                   <<" ", " ", " ", " ", "b", ":", " ", "4">> >>,
      first |-> 2, last |-> 5] >>

(* an empty line, a line of spaces, a line of one tab *)
BlankLines == {<<>>, <<SPACE, SPACE, SPACE>>, <<TAB>>}

RECURSIVE WithBlanks(_, _, _, _)
WithBlanks(lines, gaps, blank, g) ==
  (IF g \in gaps THEN <<blank>> ELSE <<>>)
    \o (IF g < Len(lines) THEN <<lines[g + 1]>> \o WithBlanks(lines, gaps, blank, g + 1)
        ELSE <<>>)

BlankDocument(tmpl, gaps, blank) ==
  Join(WithBlanks(BlankTemplates[tmpl].lines, gaps, blank, 0), <<NEWLINE>>)

BlankCalls ==
  UNION {[op : {"decode"}, tmpl : {t},
          gaps : {g \in SUBSET (0..Len(BlankTemplates[t].lines)) :
                    Cardinality(g) <= MaxBlanks},
          blank : BlankLines, strict : BOOLEAN] : t \in 1..Len(BlankTemplates)}

InitBlank ==
  /\ pc = "call" /\ arg \in BlankCalls
  /\ text = BlankDocument(arg.tmpl, arg.gaps, arg.blank)
  /\ res = VNull /\ NoAdapters

SpecBlank == InitBlank /\ [][NextDec]_vars

(* the gaps strictly between the first and the last row or item line *)
InteriorGaps(tmpl) ==
  {g \in 0..Len(BlankTemplates[tmpl].lines) :
     BlankTemplates[tmpl].first <= g /\ g < BlankTemplates[tmpl].last}

(* C9: strict decode raises when a blank line lies strictly between the    *)
(* first and the last row or item line of the array; with no such blank    *)
(* line, and always in non-strict mode, decode returns what it returns for *)
(* the document without its blank lines.                                   *)
BlankLineDiscipline ==
  (pc = "done" /\ arg.op = "decode") =>
    IF arg.strict /\ arg.gaps \cap InteriorGaps(arg.tmpl) # {}
    THEN IsError(res)
    ELSE /\ ~IsError(res)
         /\ res = decode_(BlankDocument(arg.tmpl, {}, arg.blank), DecodeOptions(arg.strict))

(* strict decode has refused a list with a line of spaces between its two  *)
(* items, and a blank line before the header as well                       *)
BlankLineWitness ==
  /\ pc = "done" /\ arg.op = "decode" /\ arg.strict
  /\ arg.tmpl = 2 /\ arg.gaps = {0, 2} /\ arg.blank = <<SPACE, SPACE, SPACE>>
  /\ IsError(res)

(* strict decode has accepted blank lines between two root key-value lines *)
(* and between an array header and its first row                           *)
BlankLineOutsideWitness ==
  /\ pc = "done" /\ arg.op = "decode" /\ arg.strict
  /\ arg.tmpl = 3 /\ arg.gaps = {1, 3} /\ arg.blank = <<>>
  /\ res = VObj(<<[k |-> <<"k">>,
                   v |-> VArr(<<VObj(<<[k |-> <<"a">>, v |-> VInt(1)]>>),
                                VObj(<<[k |-> <<"a">>, v |-> VInt(2)]>>)>>)],
                  [k |-> <<"b">>, v |-> VInt(2)]>>)

(***************************************************************************)
(* SpecZero: tokens made of "0" and further digits.  A token is decoded at *)
(* the root, as the value of the key k, or as the first value of an inline *)
(* array written with the delimiter d; the string with the same characters *)
(* is encoded as a primitive and parsed back.                              *)
(***************************************************************************)
MaxZeroDigits == 2

ZeroDigits == {"0", "5", "7"}

ZeroTokens == {<<"0">> \o ds : ds \in SeqsUpTo(ZeroDigits, MaxZeroDigits) \ {<<>>}}

ZeroContexts == {"root", "value", "inline"}

ZeroDocument(tok, ctx, d) ==
  CASE ctx = "root" -> tok
    [] ctx = "value" -> <<"k", COLON, SPACE>> \o tok
    [] ctx = "inline" ->
         <<OPEN_BRACKET, "2">> \o DelimiterSuffix(d) \o <<CLOSE_BRACKET, COLON, SPACE>>
           \o tok \o <<d, "5">>

ZeroCalls ==
  [op : {"decode"}, tok : ZeroTokens, ctx : ZeroContexts, d : Delimiters, strict : BOOLEAN]
    \cup {PrimCall("encode_primitive", VStr(tok), <<>>, d) : tok \in ZeroTokens, d \in Delimiters}

InitZero ==
  /\ pc = "call" /\ arg \in ZeroCalls
  /\ text = (IF arg.op = "decode" THEN ZeroDocument(arg.tok, arg.ctx, arg.d) ELSE <<>>)
  /\ res = VNull /\ NoAdapters

NextZero == DecodeDocument \/ EncodePrimitive \/ ParseEncodedPrimitive

SpecZero == InitZero /\ [][NextZero]_vars

(* C11: an unquoted token of "0" followed by digits decodes to the string  *)
(* with the same characters at the root, as a mapping value and inside an  *)
(* inline array, and the encoder writes such a string between double       *)
(* quotes.                                                                 *)
LeadingZeroStrings ==
  /\ (pc = "done" /\ arg.op = "decode") =>
       res = CASE arg.ctx = "root" -> VStr(arg.tok)
               [] arg.ctx = "value" -> VObj(<<[k |-> <<"k">>, v |-> VStr(arg.tok)]>>)
               [] arg.ctx = "inline" -> VArr(<<VStr(arg.tok), VInt(5)>>)
  /\ (pc \in {"encoded", "done"} /\ arg.op = "encode_primitive") =>
       text = <<DOUBLE_QUOTE>> \o arg.v.s \o <<DOUBLE_QUOTE>>

(* the token 05 in a pipe-delimited inline array has come back as a string *)
(* next to the number 5                                                    *)
LeadingZeroWitness ==
  /\ pc = "done" /\ arg.op = "decode"
  /\ arg.ctx = "inline" /\ arg.tok = <<"0", "5">> /\ arg.d = PIPE
  /\ text = <<"[", "2", "|", "]", ":", " ", "0", "5", "|", "5">>
  /\ res = VArr(<<VStr(<<"0", "5">>), VInt(5)>>)

(***************************************************************************)
(* SpecRoot: decode on every short document over the characters that       *)
(* decide the root form                                                    *)
(***************************************************************************)
MaxRootLen == 5

RootAlphabet == {"[", "1", "]", ":", "\"", "a", "\n"}

RootCalls == [op : {"decode"}, strict : BOOLEAN]

InitRoot ==
  /\ pc = "call" /\ arg \in RootCalls
  /\ text \in SeqsUpTo(RootAlphabet, MaxRootLen)
  /\ res = VNull /\ NoAdapters

SpecRoot == InitRoot /\ [][NextDec]_vars

(* the non-blank lines of the document, as the scanner returns them *)
RootLines == to_parsed_lines_(text, DecodeOptions(arg.strict).indent, arg.strict).lines

(* C12: decode raises on a document with no non-blank line; a document     *)
(* whose first non-blank line starts with "[" decodes as a root array (a   *)
(* sequence, or an error of the array); a document of one non-blank line   *)
(* with no colon outside double quotes decodes to that line parsed as a    *)
(* primitive; every other document decodes as a root mapping.              *)
RootDispatch ==
  (pc = "done" /\ arg.op = "decode") =>
    IF Len(RootLines) = 0 THEN IsError(res)
    ELSE IF StartsWith(RootLines[1].content, <<OPEN_BRACKET>>)
    THEN res.t \in {"seq", "error"}
    ELSE IF Len(RootLines) = 1 /\ find_unquoted_char_(RootLines[1].content, COLON, 0) = -1
    THEN res = parse_primitive_token_(Strip(RootLines[1].content))
    ELSE res = decode_object_(LineCursor(RootLines, <<>>), 0, DecodeOptions(arg.strict)).val

(***************************************************************************)
(* SpecNorm: normalize_value on host values: leaves of every kind, and     *)
(* lists, sets and dicts of up to MaxHostLen members, the members leaves   *)
(* or containers themselves                                                *)
(***************************************************************************)
MaxHostLen == 2

HostLeaves ==
  {VNull, VBool(TRUE), VInt(0), VInt(-7), VBigInt(FALSE, 1023), VBigInt(TRUE, 1024),
   VFloat(<<"1", ".", "5">>), VFloat(<<"0", ".", "0">>), VFloat(<<"-", "0", ".", "0">>),
   VFloat(<<"n", "a", "n">>), VFloat(<<"i", "n", "f">>), VFloat(<<"-", "i", "n", "f">>),
   VStr(<<"a">>), VDatetime(2020, 1, 2, 3, 4, 5), VOther("tuple"), VOther("function")}

(* keys no two of which are equal in Python *)
HostKeys == {VStr(<<"a">>), VStr(<<"1">>), VInt(1), VBool(FALSE), VNull, VOther("tuple")}

HostClasses == {"dict", "OrderedDict"}

(* the members given to containers: one of each behaviour *)
HostMembers ==
  {VInt(-7), VFloat(<<"-", "0", ".", "0">>), VFloat(<<"n", "a", "n">>), VBigInt(TRUE, 1024),
   VOther("tuple"), VArr(<<VBigInt(FALSE, 1024)>>),
   VDict("dict", <<[k |-> VInt(1), v |-> VFloat(<<"i", "n", "f">>)]>>),
   VDict("OrderedDict", <<>>)}

HostSeqs == UNION {[1..n -> HostMembers] : n \in 0..MaxHostLen}

HostPairs ==
  {ps \in UNION {[1..n -> [k : HostKeys, v : HostMembers]] : n \in 0..MaxHostLen} :
     \A i \in 1..Len(ps) : \A j \in 1..Len(ps) : ps[i].k = ps[j].k => i = j}

HostValues ==
  HostLeaves \cup {VArr(xs) : xs \in HostSeqs} \cup {VSet(xs) : xs \in HostSeqs}
    \cup {VDict(cls, ps) : cls \in HostClasses, ps \in HostPairs}

NormCalls == [op : {"normalize_value"}, v : HostValues]

InitNorm == pc = "call" /\ arg \in NormCalls /\ text = <<>> /\ res = VNull /\ NoAdapters

NormalizeValue ==
  /\ pc = "call" /\ arg.op = "normalize_value"
  /\ res' = normalize_value_(arg.v)
  /\ pc' = "done"
  /\ UNCHANGED <<arg, text, adapters>>

NextNorm == NormalizeValue

SpecNorm == InitNorm /\ [][NextNorm]_vars

(* a tree of null, booleans, finite numbers without negative zero,         *)
(* strings, lists and dicts with string keys                               *)
RECURSIVE IsNormalizedTree(_)
IsNormalizedTree(v) ==
  CASE v.t \in {"null", "bool", "str"} -> TRUE
    [] v.t = "int" -> TRUE
    [] v.t = "float" -> isfinite(v) /\ ~IsNegativeZero(v)
    [] v.t = "seq" -> \A i \in 1..Len(v.xs) : IsNormalizedTree(v.xs[i])
    [] v.t = "map" ->
         \A i \in 1..Len(v.ps) :
           /\ v.ps[i].k \in Seq(STRING)
           /\ IsNormalizedTree(v.ps[i].v)
    [] OTHER -> FALSE

(* C13: normalize_value returns, for every host value and without raising, *)
(* a tree of null, booleans, finite numbers, strings, lists and dicts      *)
(* whose keys are strings, with no negative zero, NaN or infinity.         *)
NormalizedTree ==
  (pc = "done" /\ arg.op = "normalize_value") => IsNormalizedTree(res)

(* C14: a mapping of n entries, of class dict or of a subclass and with    *)
(* keys of any type, normalizes to a mapping of n entries in the same      *)
(* order, the i-th with the key str(key i) and the normalized i-th value.  *)
MappingEntriesKept ==
  (pc = "done" /\ arg.op = "normalize_value" /\ arg.v.t = "dict") =>
    /\ res.t = "map"
    /\ Len(res.ps) = Len(arg.v.ps)
    /\ \A i \in 1..Len(arg.v.ps) :
         /\ _is_valid_dict_key(arg.v.ps[i].k) => res.ps[i].k = PyStr(arg.v.ps[i].k)
         /\ res.ps[i].v = normalize_value_(arg.v.ps[i].v)

(***************************************************************************)
(* tone/async_support.py: aencode_parallel and adecode_parallel.  The      *)
(* event loop holds the semaphore, one task per input (created, holding    *)
(* the semaphore with its call handed to the executor, finished in the     *)
(* executor, or returned), and the order in which the tasks returned.      *)
(***************************************************************************)
ParallelOps == {"aencode_parallel", "adecode_parallel"}

(* the results of the tasks in the order in which the tasks returned *)
gather_in_completion_order(tasks, done) ==
  VArr([k \in 1..Len(done) |-> tasks[done[k]].result])

(* asyncio.gather: the results in the order of the awaitables passed in *)
gather(tasks, done) == VArr([i \in 1..Len(tasks) |-> tasks[i].result])

(* loop.run_in_executor(None, encode, value, options), or the same of      *)
(* decode: what the worker thread computes, the str that encode returns    *)
(* as a value; encode raises where normalize_value does                    *)
run_in_executor(op, value, options) ==
  IF op = "aencode_parallel"
  THEN IF IsError(normalize_value_(value)) THEN normalize_value_(value)
       ELSE VStr(encode_(value, options))
  ELSE decode_(value, options)

(* the call up to its await: the empty list is returned at once, and       *)
(* otherwise the semaphore and one coroutine per input are created         *)
ParallelCall ==
  /\ pc = "call" /\ arg.op \in ParallelOps
  /\ IF arg.values = <<>>
     THEN res' = VArr(<<>>) /\ pc' = "done" /\ UNCHANGED event_loop
     ELSE /\ event_loop' =
               [semaphore |-> arg.max_workers,
                tasks |-> [i \in 1..Len(arg.values) |-> [pc |-> "created", result |-> VNull]],
                done |-> <<>>]
          /\ pc' = "gather"
          /\ UNCHANGED res
  /\ UNCHANGED <<arg, text, encoder, decoder>>

(* async with semaphore without the wait for a free slot *)
AcquireWithoutSemaphore(i) ==
  /\ event_loop # <<>> /\ i \in 1..Len(event_loop.tasks)
  /\ event_loop.tasks[i].pc = "created"
  /\ event_loop' = [event_loop EXCEPT !.semaphore = @ - 1, !.tasks[i].pc = "acquired"]
  /\ UNCHANGED <<pc, arg, text, res, encoder, decoder>>

(* async with semaphore: task i enters and hands its call to the executor *)
AcquireSemaphore(i) ==
  /\ event_loop # <<>> /\ i \in 1..Len(event_loop.tasks)
  /\ event_loop.tasks[i].pc = "created"
  /\ event_loop.semaphore > 0
  /\ event_loop' = [event_loop EXCEPT !.semaphore = @ - 1, !.tasks[i].pc = "acquired"]
  /\ UNCHANGED <<pc, arg, text, res, encoder, decoder>>

(* a worker thread runs the call of task i to its result or its exception *)
RunInExecutor(i) ==
  /\ event_loop # <<>> /\ i \in 1..Len(event_loop.tasks)
  /\ event_loop.tasks[i].pc = "acquired"
  /\ event_loop' =
       [event_loop EXCEPT !.tasks[i] =
          [pc |-> "finished",
           result |-> run_in_executor(arg.op, arg.values[i], arg.options)]]
  /\ UNCHANGED <<pc, arg, text, res, encoder, decoder>>

(* task i resumes, leaves the async with block and returns or raises *)
ReleaseSemaphore(i) ==
  /\ event_loop # <<>> /\ i \in 1..Len(event_loop.tasks)
  /\ event_loop.tasks[i].pc = "finished"
  /\ event_loop' = [event_loop EXCEPT !.semaphore = @ + 1, !.tasks[i].pc = "returned",
                                      !.done = Append(@, i)]
  /\ UNCHANGED <<pc, arg, text, res, encoder, decoder>>

(* await asyncio.gather(...): every task has returned *)
GatherReturn ==
  /\ pc = "gather"
  /\ \A i \in 1..Len(event_loop.tasks) :
       event_loop.tasks[i].pc = "returned" /\ ~IsError(event_loop.tasks[i].result)
  /\ res' = gather(event_loop.tasks, event_loop.done)
  /\ pc' = "done"
  /\ UNCHANGED <<arg, text, adapters>>

(* await asyncio.gather(...): a task has raised, and its exception leaves  *)
(* the call while the other tasks go on                                    *)
GatherRaise ==
  /\ pc = "gather"
  /\ \E i \in 1..Len(event_loop.tasks) :
       /\ event_loop.tasks[i].pc = "returned" /\ IsError(event_loop.tasks[i].result)
       /\ res' = event_loop.tasks[i].result
  /\ pc' = "done"
  /\ UNCHANGED <<arg, text, adapters>>

(***************************************************************************)
(* SpecParallel: the two parallel helpers on every short list of inputs,   *)
(* some of which make encode or decode raise                               *)
(***************************************************************************)
MaxBatch == 3
MaxWorkers == 2

ParallelValues == {VInt(1), VArr(<<VInt(1), VInt(2)>>), VBigInt(FALSE, 1024)}

ParallelStrings == {<<"a", ":", " ", "1">>, <<"[", "1", "]", ":", " ", "5">>, <<>>}

ParallelEncodeOptions ==
  {[indent |-> 2, delimiter |-> COMMA, length_marker |-> <<>>],
   [indent |-> 2, delimiter |-> PIPE, length_marker |-> <<HASH>>]}

ParallelCalls ==
  [op : {"aencode_parallel"},
   values : UNION {[1..n -> ParallelValues] : n \in 0..MaxBatch},
   options : ParallelEncodeOptions, max_workers : 1..MaxWorkers]
    \cup [op : {"adecode_parallel"},
          values : UNION {[1..n -> ParallelStrings] : n \in 0..MaxBatch},
          options : {DecodeOptions(strict) : strict \in BOOLEAN}, max_workers : 1..MaxWorkers]

InitParallel ==
  /\ pc = "call" /\ arg \in ParallelCalls /\ text = <<>> /\ res = VNull /\ NoAdapters

NextParallel ==
  \/ ParallelCall
  \/ \E i \in 1..MaxBatch : AcquireSemaphore(i) \/ RunInExecutor(i) \/ ReleaseSemaphore(i)
  \/ GatherReturn
  \/ GatherRaise

SpecParallel == InitParallel /\ [][NextParallel]_vars

(* what the i-th input gives when encode, or decode, is called on it alone *)
ExpectedResults ==
  [i \in 1..Len(arg.values) |-> run_in_executor(arg.op, arg.values[i], arg.options)]

(* C15: whatever the order in which the workers finish, the list a         *)
(* parallel helper returns has the length of its input and holds at place  *)
(* i what encode (or decode) returns for the i-th input; the empty input   *)
(* gives the empty list; the call raises only an exception that encode (or *)
(* decode) raises for one of the inputs.                                   *)
ParallelOrder ==
  (pc = "done" /\ arg.op \in ParallelOps) =>
    IF \E i \in 1..Len(arg.values) : IsError(ExpectedResults[i])
    THEN \E i \in 1..Len(arg.values) : IsError(ExpectedResults[i]) /\ res = ExpectedResults[i]
    ELSE res = VArr(ExpectedResults)

(* three values have been encoded by two workers, the tasks have returned  *)
(* in the order 2, 3, 1, and the list is in the order of the inputs        *)
ParallelOrderWitness ==
  /\ pc = "done" /\ arg.op = "aencode_parallel" /\ arg.max_workers = 2
  /\ arg.values = <<VArr(<<VInt(1), VInt(2)>>), VInt(1), VInt(1)>>
  /\ arg.options.delimiter = PIPE
  /\ event_loop.done = <<2, 3, 1>>
  /\ res = VArr(<<VStr(<<"[", "#", "2", "|", "]", ":", " ", "1", "|", "2">>),
                  VStr(<<"1">>), VStr(<<"1">>)>>)

(***************************************************************************)
(* tone/context.py: TONEEncoder and TONEDecoder.  The field file of an     *)
(* object is None, an open file or a closed file; content is the text of   *)
(* the file at file_path (exists tells whether there is one to read) and   *)
(* pos the read position of the open file.  options is None, so encode and *)
(* decode run with their defaults.  Every method call leaves the call in   *)
(* arg and what it returned or raised in res.                              *)
(***************************************************************************)
MethodCall(op) == [op |-> op]

MustBeUsedAsContextManager == Raise("RuntimeError: must be used as context manager")

ClosedFile == Raise("ValueError: I/O operation on closed file")

(* _resolve_encode_options(None) *)
DefaultEncodeOptions == [indent |-> 2, delimiter |-> DEFAULT_DELIMITER, length_marker |-> <<>>]

(* self.file.write(toon_str) on the encoder's file *)
FileWrite(toon_str) ==
  IF encoder.file = "closed"
  THEN res' = ClosedFile /\ UNCHANGED encoder
  ELSE res' = VNull /\ encoder' = [encoder EXCEPT !.content = @ \o toon_str]

TONEEncoder_enter ==
  /\ encoder' = [file |-> "open", content |-> <<>>]
  /\ arg' = MethodCall("TONEEncoder.__enter__")
  /\ res' = VNull
  /\ UNCHANGED <<pc, text, event_loop, decoder>>

TONEEncoder_exit ==
  /\ encoder' = IF encoder.file # "None" THEN [encoder EXCEPT !.file = "closed"] ELSE encoder
  /\ arg' = MethodCall("TONEEncoder.__exit__")
  /\ res' = VNull
  /\ UNCHANGED <<pc, text, event_loop, decoder>>

TONEEncoder_encode(value) ==
  /\ arg' = MethodCall("TONEEncoder.encode")
  /\ IF encoder.file = "None"
     THEN res' = MustBeUsedAsContextManager /\ UNCHANGED encoder
     ELSE IF IsError(normalize_value_(value))
     THEN res' = normalize_value_(value) /\ UNCHANGED encoder
     ELSE FileWrite(encode_(value, DefaultEncodeOptions))
  /\ UNCHANGED <<pc, text, event_loop, decoder>>

TONEEncoder_write(toon_str) ==
  /\ arg' = MethodCall("TONEEncoder.write")
  /\ IF encoder.file = "None"
     THEN res' = MustBeUsedAsContextManager /\ UNCHANGED encoder
     ELSE FileWrite(toon_str)
  /\ UNCHANGED <<pc, text, event_loop, decoder>>

TONEDecoder_enter ==
  /\ arg' = MethodCall("TONEDecoder.__enter__")
  /\ IF decoder.exists
     THEN res' = VNull /\ decoder' = [decoder EXCEPT !.file = "open", !.pos = 0]
     ELSE res' = Raise("FileNotFoundError") /\ UNCHANGED decoder
  /\ UNCHANGED <<pc, text, event_loop, encoder>>

TONEDecoder_exit ==
  /\ decoder' = IF decoder.file # "None" THEN [decoder EXCEPT !.file = "closed"] ELSE decoder
  /\ arg' = MethodCall("TONEDecoder.__exit__")
  /\ res' = VNull
  /\ UNCHANGED <<pc, text, event_loop, encoder>>

TONEDecoder_decode ==
  /\ arg' = MethodCall("TONEDecoder.decode")
  /\ IF decoder.file = "None"
     THEN res' = MustBeUsedAsContextManager /\ UNCHANGED decoder
     ELSE IF decoder.file = "closed"
     THEN res' = ClosedFile /\ UNCHANGED decoder
     ELSE /\ res' = decode_(SliceFrom(decoder.content, decoder.pos), DecodeOptions(TRUE))
          /\ decoder' = [decoder EXCEPT !.pos = Len(decoder.content)]
  /\ UNCHANGED <<pc, text, event_loop, encoder>>

TONEDecoder_read ==
  /\ arg' = MethodCall("TONEDecoder.read")
  /\ IF decoder.file = "None"
     THEN res' = MustBeUsedAsContextManager /\ UNCHANGED decoder
     ELSE IF decoder.file = "closed"
     THEN res' = ClosedFile /\ UNCHANGED decoder
     ELSE /\ res' = VStr(SliceFrom(decoder.content, decoder.pos))
          /\ decoder' = [decoder EXCEPT !.pos = Len(decoder.content)]
  /\ UNCHANGED <<pc, text, event_loop, encoder>>

(***************************************************************************)
(* SpecContext: one encoder and one decoder, their methods called in any   *)
(* order, inside and outside of with blocks                                *)
(***************************************************************************)
MaxFileLen == 6

ContextValues == {VInt(1), VObj(<<[k |-> <<"a">>, v |-> VInt(1)]>>), VBigInt(FALSE, 1024)}

ContextStrings == {<<"x">>}

ContextFiles == {<<"a", ":", " ", "1">>, <<>>}

InitContext ==
  /\ pc = "call" /\ arg = MethodCall("__init__") /\ text = <<>> /\ res = VNull
  /\ event_loop = <<>>
  /\ encoder = [file |-> "None", content |-> <<>>]
  /\ decoder \in [file : {"None"}, exists : BOOLEAN, content : ContextFiles, pos : {0}]

NextContext ==
  \/ TONEEncoder_enter
  \/ TONEEncoder_exit
  \/ \E value \in ContextValues :
       Len(encoder.content) < MaxFileLen /\ TONEEncoder_encode(value)
  \/ \E toon_str \in ContextStrings :
       Len(encoder.content) < MaxFileLen /\ TONEEncoder_write(toon_str)
  \/ TONEDecoder_enter
  \/ TONEDecoder_exit
  \/ TONEDecoder_decode
  \/ TONEDecoder_read

SpecContext == InitContext /\ [][NextContext]_vars

(* C16: encode and write of a TONEEncoder, and decode and read of a        *)
(* TONEDecoder, raise the RuntimeError "must be used as context manager"   *)
(* exactly when they are called while the object is not inside a with      *)
(* block: before __enter__ (file is None) and after __exit__ (file is      *)
(* closed).                                                                *)
ContextDiscipline ==
  [][/\ arg'.op \in {"TONEEncoder.encode", "TONEEncoder.write"} =>
          ((encoder.file # "open") <=> (res' = MustBeUsedAsContextManager))
     /\ arg'.op \in {"TONEDecoder.decode", "TONEDecoder.read"} =>
          ((decoder.file # "open") <=> (res' = MustBeUsedAsContextManager))]_vars

(***************************************************************************)
(* SpecShape: encode_array on every short non-empty sequence of            *)
(* primitives, mappings over the keys a and b, and sequences, with and     *)
(* without a key                                                           *)
(***************************************************************************)
MaxShapeLen == 2

ShapePrimitives == {VInt(1), VStr(<<"x">>)}

ShapeFieldValues == {VInt(1), VInt(2), VArr(<<>>)}

ShapeKeyLists == {<<>>, << <<"a">> >>, << <<"b">> >>, << <<"a">>, <<"b">> >>, << <<"b">>, <<"a">> >>}

ShapeMappings ==
  UNION {{VObj([i \in 1..Len(ks) |-> [k |-> ks[i], v |-> vs[i]]]) :
            vs \in [1..Len(ks) -> ShapeFieldValues]} : ks \in ShapeKeyLists}

ShapeSequences == {VArr(<<>>), VArr(<<VInt(1)>>), VArr(<<VArr(<<>>)>>)}

ShapeElements == ShapePrimitives \cup ShapeMappings \cup ShapeSequences

ShapeOptions == [indent : {2}, delimiter : {COMMA, PIPE}, length_marker : {<<>>, <<HASH>>}]

ShapeCalls ==
  [op : {"encode_array"}, key : {NoKey, SomeKey(<<"k">>)},
   value : {VArr(xs) : xs \in UNION {[1..n -> ShapeElements] : n \in 1..MaxShapeLen}},
   options : ShapeOptions]

InitShape == pc = "call" /\ arg \in ShapeCalls /\ text = <<>> /\ res = VNull /\ NoAdapters

EncodeArray ==
  /\ pc = "call" /\ arg.op = "encode_array"
  /\ text' = to_string(encode_array_(arg.key, arg.value, LineWriter(arg.options.indent), 0,
                                     arg.options))
  /\ pc' = "done"
  /\ UNCHANGED <<arg, res, adapters>>

NextShape == EncodeArray

SpecShape == InitShape /\ [][NextShape]_vars

(* the three layouts as they show in the lines written: values after the   *)
(* header's colon; a field list in the header and one row per element, the *)
(* row the element's values in the order of the first element's keys; a    *)
(* bare header with hyphen lines one level below it                        *)
ShapeLines == Split(text, NEWLINE)

InlineForm == Len(ShapeLines) = 1 /\ ~EndsWith(ShapeLines[1], <<COLON>>)

TabularForm ==
  LET S == arg.value.xs
      fields == Keys(S[1].ps)
  IN /\ EndsWith(ShapeLines[1], <<CLOSE_BRACE, COLON>>)
     /\ Len(ShapeLines) = 1 + Len(S)
     /\ \A i \in 1..Len(S) :
          ShapeLines[i + 1] =
            <<SPACE, SPACE>>
              \o Join([j \in 1..Len(fields) |->
                         encode_primitive_(Get(S[i].ps, fields[j]), arg.options.delimiter)],
                      <<arg.options.delimiter>>)

ListForm ==
  /\ EndsWith(ShapeLines[1], <<CLOSE_BRACKET, COLON>>)
  /\ \A i \in 2..Len(ShapeLines) :
       LeadingSpaces(ShapeLines[i]) = 2 => <<ShapeLines[i][3]>> = LIST_ITEM_MARKER

AllPrimitives(S) == \A i \in 1..Len(S) : S[i].t \notin {"seq", "map"}

(* every element is a mapping with the key set of the first and with      *)
(* primitive values only                                                   *)
UniformMappings(S) ==
  \A i \in 1..Len(S) :
    /\ S[i].t = "map"
    /\ {S[i].ps[j].k : j \in 1..Len(S[i].ps)} = {S[1].ps[j].k : j \in 1..Len(S[1].ps)}
    /\ AllPrimitives([j \in 1..Len(S[i].ps) |-> S[i].ps[j].v])

(* C17: encode_array writes a non-empty sequence inline if and only if     *)
(* every element is a primitive; otherwise in the tabular form if and only *)
(* if every element is a mapping with the key set of the first element and *)
(* primitive values, the rows in the first element's key order; otherwise  *)
(* in the expanded list form.                                              *)
ArrayShapeSelection ==
  (pc = "done" /\ arg.op = "encode_array") =>
    IF AllPrimitives(arg.value.xs) THEN InlineForm
    ELSE IF UniformMappings(arg.value.xs) THEN TabularForm
    ELSE ListForm

(* C17 with the condition of extract_tabular_header added: the tabular     *)
(* form is used if and only if, besides, the first element has at least    *)
(* one key; a sequence of empty mappings is written in the expanded list   *)
(* form.  Exactly one of the three layouts is used.                        *)
ArrayShapeSelectionWithFields ==
  (pc = "done" /\ arg.op = "encode_array") =>
    IF AllPrimitives(arg.value.xs) THEN InlineForm /\ ~TabularForm /\ ~ListForm
    ELSE IF UniformMappings(arg.value.xs) /\ Len(arg.value.xs[1].ps) > 0
    THEN TabularForm /\ ~InlineForm /\ ~ListForm
    ELSE ListForm /\ ~InlineForm /\ ~TabularForm

(* two mappings with the keys a, b and b, a have been written as a table   *)
(* whose second row is in the order of the first mapping's keys            *)
ArrayShapeWitness ==
  /\ pc = "done" /\ arg.op = "encode_array" /\ arg.key = NoKey
  /\ arg.options.delimiter = COMMA /\ arg.options.length_marker = <<>>
  /\ arg.value = VArr(<<VObj(<<[k |-> <<"a">>, v |-> VInt(1)], [k |-> <<"b">>, v |-> VInt(2)]>>),
                        VObj(<<[k |-> <<"b">>, v |-> VInt(1)], [k |-> <<"a">>, v |-> VInt(2)]>>)>>)
  /\ text = <<"[", "2", "]", "{", "a", ",", "b", "}", ":", "\n",
              " ", " ", "1", ",", "2", "\n", " ", " ", "2", ",", "1">>

(* the lines one level below the header: in the expanded list form these   *)
(* are the lines that introduce the elements (the other pairs of a mapping *)
(* and the blocks nested in it are written deeper)                         *)
ListItemLines ==
  SelectSeq(Tail(ShapeLines), LAMBDA line : LeadingSpaces(line) = 2)

ExpandedListForm(S) ==
  ~AllPrimitives(S) /\ ~(UniformMappings(S) /\ Len(S[1].ps) > 0)

(* C18: in the expanded list form every element of the sequence, whatever  *)
(* its kind, gives one line at depth + 1 that begins with the two          *)
(* characters "- ", the lines in element order: there are as many such     *)
(* lines as elements, and the line of a primitive element is the hyphen,   *)
(* a space and the encoded primitive.                                      *)
ExpandedListItems ==
  (pc = "done" /\ arg.op = "encode_array" /\ ExpandedListForm(arg.value.xs)) =>
    LET S == arg.value.xs
    IN /\ Len(ListItemLines) = Len(S)
       /\ \A i \in 1..Len(S) :
            /\ StartsWith(ListItemLines[i], <<SPACE, SPACE>> \o LIST_ITEM_PREFIX)
            /\ is_json_primitive(S[i]) =>
                 ListItemLines[i] =
                   <<SPACE, SPACE>> \o LIST_ITEM_PREFIX
                     \o encode_primitive_(S[i], arg.options.delimiter)

(***************************************************************************)
(* SpecHeader: encode_key_value_pair on every entry whose value is a short *)
(* sequence, under a plain key, a key that needs quotes and the empty key  *)
(***************************************************************************)
MaxHeaderLen == 2

HeaderKeys == {<<>>, <<"k">>, <<"a", " ", "b">>}

HeaderElements ==
  {VInt(1), VStr(<<"x">>), VArr(<<VInt(1)>>),
   VObj(<<[k |-> <<"a">>, v |-> VInt(1)]>>),
   VObj(<<[k |-> <<"a">>, v |-> VInt(2)], [k |-> <<"b", " ">>, v |-> VInt(1)]>>)}

HeaderCalls ==
  [op : {"encode_key_value_pair"}, key : HeaderKeys,
   value : {VArr(xs) : xs \in UNION {[1..n -> HeaderElements] : n \in 0..MaxHeaderLen}},
   options : ShapeOptions]

InitHeader == pc = "call" /\ arg \in HeaderCalls /\ text = <<>> /\ res = VNull /\ NoAdapters

EncodeKeyValuePair ==
  /\ pc = "call" /\ arg.op = "encode_key_value_pair"
  /\ text' = to_string(encode_key_value_pair_(arg.key, arg.value,
                                              LineWriter(arg.options.indent), 0, arg.options))
  /\ pc' = "done"
  /\ UNCHANGED <<arg, res, adapters>>

NextHeader == EncodeKeyValuePair

SpecHeader == InitHeader /\ [][NextHeader]_vars

HeaderLine == Split(text, NEWLINE)[1]

(* the header of the entry (k, S) as the grammar composes it *)
KeyedHeader(k, S, options) ==
  LET tabular == Len(S) > 0 /\ UniformMappings(S) /\ Len(S[1].ps) > 0
  IN encode_key_(k)
     \o <<OPEN_BRACKET>>
     \o (IF options.length_marker # <<>> THEN <<HASH>> ELSE <<>>)
     \o IntStr(Len(S))
     \o (IF options.delimiter # COMMA THEN <<options.delimiter>> ELSE <<>>)
     \o <<CLOSE_BRACKET>>
     \o (IF tabular
         THEN <<OPEN_BRACE>>
              \o Join([j \in 1..Len(S[1].ps) |-> encode_key_(S[1].ps[j].k)],
                      <<options.delimiter>>)
              \o <<CLOSE_BRACE>>
         ELSE <<>>)
     \o <<COLON>>

(* C19: the header line written for a mapping entry (k, v) with v a        *)
(* sequence of length N is the encoded key, the bracket with the length    *)
(* marker if set, N and the delimiter if it is not the comma, the encoded  *)
(* field list in braces in the tabular case, and a colon; the key is       *)
(* written also when it is the empty string.  In the inline form the       *)
(* values follow the header on its line after a space.                     *)
KeyedArrayHeader ==
  (pc = "done" /\ arg.op = "encode_key_value_pair") =>
    LET S == arg.value.xs
        header == KeyedHeader(arg.key, S, arg.options)
    IN IF Len(S) > 0 /\ AllPrimitives(S)
       THEN StartsWith(HeaderLine, header \o <<SPACE>>)
       ELSE HeaderLine = header

(***************************************************************************)
(* SpecListItem: encode_object_as_list_item on a mapping whose first value *)
(* is a non-empty mapping, then decode_list_item on the lines written, at  *)
(* the depth they were written at                                          *)
(***************************************************************************)
MaxRestPairs == 2

ListItemNested ==
  {VObj(<<[k |-> <<"b">>, v |-> VInt(1)]>>),
   VObj(<<[k |-> <<"b">>, v |-> VInt(1)], [k |-> <<"c">>, v |-> VStr(<<"x">>)]>>),
   VObj(<<[k |-> <<"b">>, v |-> VObj(<<[k |-> <<"c">>, v |-> VInt(1)]>>)]>>),
   VObj(<<[k |-> <<"b">>, v |-> VArr(<<VInt(1)>>)]>>)}

ListItemRestKeys == <<"c", "d", "e", "f">>

ListItemRestValues == {VInt(2), VArr(<<VInt(1)>>), VObj(<<>>)}

ListItemRests ==
  UNION {{[i \in 1..n |-> [k |-> <<ListItemRestKeys[i]>>, v |-> vs[i]]] :
            vs \in [1..n -> ListItemRestValues]} : n \in 0..MaxRestPairs}

ListItemMappings ==
  {VObj(<<[k |-> <<"a">>, v |-> nested]>> \o rest) :
     nested \in ListItemNested, rest \in ListItemRests}

ListItemCalls ==
  [op : {"encode_object_as_list_item"}, obj : ListItemMappings, depth : {0, 1},
   options : ShapeOptions]

InitListItem == pc = "call" /\ arg \in ListItemCalls /\ text = <<>> /\ res = VNull /\ NoAdapters

EncodeObjectAsListItem ==
  /\ pc = "call" /\ arg.op = "encode_object_as_list_item"
  /\ text' = to_string(encode_object_as_list_item_(arg.obj, LineWriter(arg.options.indent),
                                                   arg.depth, arg.options))
  /\ pc' = "encoded"
  /\ UNCHANGED <<arg, res, adapters>>

DecodeListItem ==
  /\ pc = "encoded" /\ arg.op = "encode_object_as_list_item"
  /\ LET scan_result == to_parsed_lines_(text, arg.options.indent, TRUE)
     IN res' = IF IsError(scan_result) THEN scan_result
               ELSE decode_list_item_(LineCursor(scan_result.lines, scan_result.blank_lines),
                                      arg.depth, arg.options.delimiter,
                                      DecodeOptions(TRUE)).val
  /\ pc' = "done"
  /\ UNCHANGED <<arg, text, adapters>>

NextListItem == EncodeObjectAsListItem \/ DecodeListItem

SpecListItem == InitListItem /\ [][NextListItem]_vars

(* C20: for a mapping M that is an element of an expanded list and whose   *)
(* first value is a non-empty mapping, decode_list_item on the lines of    *)
(* encode_object_as_list_item returns M: the pairs of the nested mapping   *)
(* and the remaining pairs of M are both recovered.                        *)
ListItemRoundTrip ==
  (pc = "done" /\ arg.op = "encode_object_as_list_item") => res = arg.obj

(***************************************************************************)
(* SpecNumeric: parse_primitive_token on every short token over the        *)
(* characters of numbers and of what resembles them                        *)
(***************************************************************************)
NumericCalls ==
  {PrimCall("parse_primitive_token", VNull, tok, COMMA) :
     tok \in SeqsUpTo(NumAlphabet, MaxNumLen)}

InitNumeric == pc = "call" /\ arg \in NumericCalls /\ text = <<>> /\ res = VNull /\ NoAdapters

NextNumeric == ParsePrimitiveToken

SpecNumeric == InitNumeric /\ [][NextNumeric]_vars

(* -?[0-9]+(.[0-9]+)?([eE][+-]?[0-9]+)? over the whole of s, and no        *)
(* leading zero: after the optional minus sign s is "0", or begins with    *)
(* "0.", or does not begin with "0"                                        *)
StrictNumber(s) ==
  LET i0 == IF 0 < Len(s) /\ At(s, 0) = "-" THEN 1 ELSE 0
      i1 == DigitsEnd(s, i0)
      f1 == DigitsEnd(s, i1 + 1)
      i2 == IF i1 < Len(s) /\ At(s, i1) = "." /\ f1 > i1 + 1 THEN f1 ELSE i1
      e0 == i2 + 1 + SignLen(s, i2 + 1)
      e1 == DigitsEnd(s, e0)
      i3 == IF i2 < Len(s) /\ At(s, i2) \in {"e", "E"} /\ e1 > e0 THEN e1 ELSE i2
  IN /\ i1 > i0
     /\ i3 = Len(s)
     /\ At(s, i0) = "0" => (Len(s) = i0 + 1 \/ At(s, i0 + 1) = ".")

(* C21: is_numeric_literal accepts exactly the strings of the number       *)
(* pattern that have no leading zero, a subset of those is_numeric_like    *)
(* accepts, and parse_primitive_token returns a number for no other        *)
(* unquoted token.                                                         *)
NumericClassification ==
  (pc = "done" /\ arg.op = "parse_primitive_token") =>
    /\ is_numeric_literal_(arg.s) <=> StrictNumber(arg.s)
    /\ is_numeric_literal_(arg.s) => is_numeric_like_(arg.s)
    /\ res.t \in {"int", "float"} <=> StrictNumber(arg.s)

(***************************************************************************)
(* SpecKey: encode_key on every short key over letters, a digit, the       *)
(* underscore, the dot, characters that need quotes, the newline and a     *)
(* letter outside ASCII                                                    *)
(***************************************************************************)
KeyAlphabet == {"a", "Z", "_", "5", ".", "-", " ", "\"", "\n", "U+00E9"}

KeyCalls == [op : {"encode_key"}, key : SeqsUpTo(KeyAlphabet, MaxStrLen)]

InitKey == pc = "call" /\ arg \in KeyCalls /\ text = <<>> /\ res = VNull /\ NoAdapters

EncodeKey ==
  /\ pc = "call" /\ arg.op = "encode_key"
  /\ text' = encode_key_(arg.key)
  /\ pc' = "done"
  /\ UNCHANGED <<arg, res, adapters>>

NextKey == EncodeKey

SpecKey == InitKey /\ [][NextKey]_vars

(* the whole of k matches [A-Za-z_][A-Za-z0-9_.]* *)
IdentifierKey(k) ==
  /\ k # <<>>
  /\ k[1] \in AsciiLetters \cup {"_"}
  /\ \A i \in 2..Len(k) :
       k[i] \in AsciiLetters \cup {"_", "."}
                  \cup {"0", "1", "2", "3", "4", "5", "6", "7", "8", "9"}

(* C22: encode_key(k) is k itself if and only if the whole of k matches    *)
(* [A-Za-z_][A-Za-z0-9_.]* (ASCII only, no trailing newline); every other  *)
(* k, the empty string included, is written escaped between double quotes. *)
KeyQuoting ==
  (pc = "done" /\ arg.op = "encode_key") =>
    text = IF IdentifierKey(arg.key) THEN arg.key
           ELSE <<"\"">> \o EscapedString(arg.key) \o <<"\"">>

(***************************************************************************)
(* SpecBracket: decode of one line k[body]: with every short bracket body  *)
(* over the length marker, a digit, the signs, a letter and the pipe, with *)
(* and without a value after the colon                                     *)
(***************************************************************************)
MaxBodyLen == 3

BodyAlphabet == {"#", "1", "-", "+", "a", "|"}

BracketLine(body, tail) == <<"k", OPEN_BRACKET>> \o body \o <<CLOSE_BRACKET, COLON>> \o tail

BracketCalls ==
  [op : {"decode"}, body : SeqsUpTo(BodyAlphabet, MaxBodyLen),
   tail : {<<>>, <<SPACE, "1">>}, strict : BOOLEAN]

InitBracket ==
  /\ pc = "call" /\ arg \in BracketCalls /\ text = BracketLine(arg.body, arg.tail)
  /\ res = VNull /\ NoAdapters

SpecBracket == InitBracket /\ [][NextDec]_vars

(* the body without an optional leading "#" and an optional trailing tab   *)
(* or "|" is a non-empty run of decimal digits                             *)
DecimalBody(body) ==
  LET c1 == IF body # <<>> /\ body[1] = HASH THEN Tail(body) ELSE body
      c2 == IF c1 # <<>> /\ c1[Len(c1)] \in {TAB, PIPE} THEN SubSeq(c1, 1, Len(c1) - 1)
            ELSE c1
  IN c2 # <<>> /\ \A i \in 1..Len(c2) : c2[i] \in {"0", "1", "2", "3", "4", "5", "6", "7", "8", "9"}

(* C23: a line with a bracket segment followed by a colon whose bracket    *)
(* body, without an optional leading "#" and an optional trailing tab or   *)
(* "|", is not a non-negative decimal integer makes decode raise an error  *)
(* instead of reading the line as a key-value line; and every header the   *)
(* header parser returns declares a length N >= 0.                         *)
BracketBodyErrors ==
  (pc = "done" /\ arg.op = "decode") =>
    /\ ~DecimalBody(arg.body) => IsError(res)
    /\ LET parsed == parse_array_header_line_(text, DEFAULT_DELIMITER)
       IN parsed.t = "header" => parsed.header.length >= 0

(***************************************************************************)
(* SpecParallelRun: the parallel helpers under the scheduling of the event *)
(* loop.  A task that can take a step eventually takes one.  Once the call *)
(* has raised, its caller may close the loop (asyncio.run does), which     *)
(* cancels the tasks that still wait for the semaphore; a call already in  *)
(* the executor runs to its end.                                           *)
(***************************************************************************)
CloseLoop ==
  /\ pc = "done" /\ IsError(res) /\ event_loop # <<>>
  /\ \E i \in 1..Len(event_loop.tasks) : event_loop.tasks[i].pc = "created"
  /\ event_loop' =
       [event_loop EXCEPT !.tasks =
          [i \in 1..Len(event_loop.tasks) |->
             IF event_loop.tasks[i].pc = "created"
             THEN [event_loop.tasks[i] EXCEPT !.pc = "cancelled"]
             ELSE event_loop.tasks[i]]]
  /\ UNCHANGED <<pc, arg, text, res, encoder, decoder>>

ParallelRunCalls ==
  [op : {"aencode_parallel"},
   values : UNION {[1..n -> {VInt(1), VBigInt(FALSE, 1024)}] : n \in 0..MaxBatch},
   options : {DefaultEncodeOptions}, max_workers : 1..MaxWorkers]
    \cup [op : {"adecode_parallel"},
          values : UNION {[1..n -> {<<"a", ":", " ", "1">>, <<>>}] : n \in 0..MaxBatch},
          options : {DecodeOptions(TRUE)}, max_workers : 1..MaxWorkers]

InitParallelRun ==
  /\ pc = "call" /\ arg \in ParallelRunCalls /\ text = <<>> /\ res = VNull /\ NoAdapters

NextParallelRun == NextParallel \/ CloseLoop

(* what the executor can hand back for the inputs above *)
ExecutorResults ==
  {run_in_executor("aencode_parallel", v, DefaultEncodeOptions) :
     v \in {VInt(1), VBigInt(FALSE, 1024)}}
    \cup {run_in_executor("adecode_parallel", v, DecodeOptions(TRUE)) :
            v \in {<<"a", ":", " ", "1">>, <<>>}}

(* the step of RunInExecutor(i) seen from the event loop: the call handed  *)
(* to the executor comes back, with some result                            *)
ExecutorFinishes(i) ==
  /\ event_loop # <<>> /\ i \in 1..Len(event_loop.tasks)
  /\ event_loop.tasks[i].pc = "acquired"
  /\ \E result \in ExecutorResults :
       event_loop' = [event_loop EXCEPT !.tasks[i] = [pc |-> "finished", result |-> result]]
  /\ UNCHANGED <<pc, arg, text, res, encoder, decoder>>

(* what the event loop and the executor's threads do when they can: the    *)
(* call runs to its await, a waiting task takes a free slot, a call handed *)
(* over finishes, a finished task resumes, and gather resumes its caller   *)
EventLoopStep ==
  \/ ParallelCall
  \/ \E i \in 1..MaxBatch : AcquireSemaphore(i) \/ ExecutorFinishes(i) \/ ReleaseSemaphore(i)
  \/ GatherReturn
  \/ GatherRaise

SpecParallelRun ==
  InitParallelRun /\ [][NextParallelRun]_vars /\ WF_vars(EventLoopStep)

(* the calls handed to the executor and not yet finished *)
InFlight ==
  IF event_loop = <<>> THEN 0
  ELSE Cardinality({i \in 1..Len(event_loop.tasks) : event_loop.tasks[i].pc = "acquired"})

(* the call is over and the executor has run the call of every input *)
AllProcessed ==
  /\ pc = "done"
  /\ event_loop # <<>> =>
       \A i \in 1..Len(event_loop.tasks) : event_loop.tasks[i].pc \in {"finished", "returned"}

(* a step hands a task to the executor only from its creation, and sets a  *)
(* task's result only on finishing the one call handed over                *)
ProcessedAtMostOnce ==
  event_loop # <<>> =>
    \A i \in 1..Len(event_loop.tasks) :
      /\ (event_loop'.tasks[i].pc = "acquired" /\ event_loop.tasks[i].pc # "acquired")
           => event_loop.tasks[i].pc = "created"
      /\ event_loop'.tasks[i].result # event_loop.tasks[i].result
           => (event_loop.tasks[i].pc = "acquired" /\ event_loop'.tasks[i].pc = "finished")

NoInputRaises ==
  \A i \in 1..Len(arg.values) : ~IsError(run_in_executor(arg.op, arg.values[i], arg.options))

MaxDocLines == 2

CursorContents ==
  {<<"a", ":", " ", "1">>, <<"b", ":", " ", "2">>, <<"a", ":">>, <<"-", " ", "1">>,
   <<"[", "1", "]", ":", " ", "1">>, <<"x">>}

CursorLines == {Repeat(<<SPACE, SPACE>>, depth) \o content : depth \in 0..2, content \in CursorContents}

CursorCalls ==
  [op : {"decode_run"},
   lines : UNION {[1..n -> CursorLines] : n \in 1..MaxDocLines},
   strict : BOOLEAN]

InitCursor ==
  /\ pc = "call" /\ arg \in CursorCalls /\ text = Join(arg.lines, <<NEWLINE>>)
  /\ res = VNull /\ NoAdapters

DecodeRun ==
  /\ pc = "call" /\ arg.op = "decode_run"
  /\ res' = decode_run_(text, DecodeOptions(arg.strict))
  /\ pc' = "done"
  /\ UNCHANGED <<arg, text, adapters>>

NextCursor == DecodeRun

SpecCursor == InitCursor /\ [][NextCursor]_vars

(* C25: whenever decode returns a value, in strict or in lenient mode, the *)
(* line cursor is at the end: every line of the input has been consumed    *)
(* (the one line of a root primitive is read in place).  An input with a   *)
(* line that fits nowhere raises an error.                                 *)
NoLineIgnored ==
  (pc = "done" /\ arg.op = "decode_run" /\ ~IsError(res.val)) =>
    \/ res.cur.index = Len(res.cur.lines)
    \/ Len(res.cur.lines) = 1 /\ is_json_primitive(res.val)

(* the array header that begins the text written by encode_array, as the   *)
(* header parser reads it, and the entries written for that array: the     *)
(* values after the colon, or the rows or list items one level below       *)
WrittenHeader == parse_array_header_line_(ShapeLines[1], DEFAULT_DELIMITER)

EmittedEntries ==
  IF WrittenHeader.inlineValues # <<>>
  THEN Len(parse_delimited_values_(WrittenHeader.inlineValues, WrittenHeader.header.delimiter))
  ELSE Len(ListItemLines)

(* C26: the length N declared in the header of an array the encoder writes *)
(* equals the number of inline values, tabular rows or list items written  *)
(* for that array: no element is counted in N and left out of the output.  *)
EncoderLengthConsistency ==
  (pc = "done" /\ arg.op = "encode_array") =>
    /\ WrittenHeader.t = "header"
    /\ WrittenHeader.header.length = Len(arg.value.xs)
    /\ EmittedEntries = WrittenHeader.header.length

(***************************************************************************)
(* SpecHeaderTrip: format_header on a key (absent, empty, plain, or in     *)
(* need of quotes), a length, a delimiter, a length marker and a field     *)
(* list, then parse_array_header_line on the header written                *)
(***************************************************************************)
HeaderTripKeys ==
  {NoKey, SomeKey(<<>>), SomeKey(<<"k">>), SomeKey(<<"a", " ", "b">>), SomeKey(<<"a", "]">>)}

HeaderTripFields ==
  {<<>>, << <<"a">> >>, << <<"a">>, <<"b", " ", "c">> >>, << <<"a", "}">> >>,
   << <<"a", ":">> >>, << <<"x", "]">> >>}

HeaderTripCalls ==
  [op : {"format_header"}, length : 0..MaxHeaderLen, key : HeaderTripKeys,
   fields : HeaderTripFields, delimiter : Delimiters, length_marker : {<<>>, <<HASH>>}]

InitHeaderTrip ==
  pc = "call" /\ arg \in HeaderTripCalls /\ text = <<>> /\ res = VNull /\ NoAdapters

FormatHeader ==
  /\ pc = "call" /\ arg.op = "format_header"
  /\ text' = format_header_(arg.length, arg.key, arg.fields, arg.delimiter, arg.length_marker)
  /\ pc' = "formatted"
  /\ UNCHANGED <<arg, res, adapters>>

ParseArrayHeaderLine ==
  /\ pc = "formatted"
  /\ res' = parse_array_header_line_(text, DEFAULT_DELIMITER)
  /\ pc' = "done"
  /\ UNCHANGED <<arg, text, adapters>>

NextHeaderTrip == FormatHeader \/ ParseArrayHeaderLine

SpecHeaderTrip == InitHeaderTrip /\ [][NextHeaderTrip]_vars

(* C27: parse_array_header_line on format_header(N, k, F, D, marker)       *)
(* returns a header whose key, length, delimiter, has_length_marker and    *)
(* fields are k, N, D, the marker setting and F, for every key (absent,    *)
(* empty, plain or quoted) and every field list (absent or not empty, the  *)
(* names possibly quoted).                                                 *)
HeaderRoundTrip ==
  (pc = "done" /\ arg.op = "format_header") =>
    /\ res.t = "header"
    /\ res.header.key = arg.key
    /\ res.header.length = arg.length
    /\ res.header.delimiter = arg.delimiter
    /\ res.header.has_length_marker = (arg.length_marker # <<>>)
    /\ res.header.has_fields = (arg.fields # <<>>)
    /\ res.header.fields = arg.fields

(***************************************************************************)
(* SpecEscape: escape_string on every short string over the escaped        *)
(* characters and plain ones, the result between double quotes, then       *)
(* parse_string_literal on that literal                                    *)
(***************************************************************************)
MaxEscapeLen == 3

EscapeAlphabet == {BACKSLASH, DOUBLE_QUOTE, NEWLINE, CARRIAGE_RETURN, TAB, "n", "a", SPACE}

EscapeCalls == [op : {"escape_string"}, s : SeqsUpTo(EscapeAlphabet, MaxEscapeLen)]

InitEscape == pc = "call" /\ arg \in EscapeCalls /\ text = <<>> /\ res = VNull /\ NoAdapters

EscapeString ==
  /\ pc = "call" /\ arg.op = "escape_string"
  /\ text' = <<DOUBLE_QUOTE>> \o escape_string_(arg.s) \o <<DOUBLE_QUOTE>>
  /\ pc' = "escaped"
  /\ UNCHANGED <<arg, res, adapters>>

ParseStringLiteral ==
  /\ pc = "escaped"
  /\ res' = parse_string_literal_(text)
  /\ pc' = "done"
  /\ UNCHANGED <<arg, text, adapters>>

NextEscape == EscapeString \/ ParseStringLiteral

SpecEscape == InitEscape /\ [][NextEscape]_vars

(* C28: parse_string_literal on a double quote, escape_string(s) and a     *)
(* double quote returns s; find_closing_quote finds the closing quote at   *)
(* the last character, and unescape_string(escape_string(s)) is s.         *)
EscapeRoundTrip ==
  (pc = "done" /\ arg.op = "escape_string") =>
    /\ res = VStr(arg.s)
    /\ find_closing_quote_(text, 0) = Len(text) - 1
    /\ unescape_string_(escape_string_(arg.s)) = [ok |-> TRUE, s |-> arg.s]

(* a backslash followed by the letter n has been written as two            *)
(* backslashes and n, and read back as the backslash and n                 *)
EscapeRoundTripWitness ==
  /\ pc = "done" /\ arg.op = "escape_string"
  /\ arg.s = <<BACKSLASH, "n">>
  /\ text = <<DOUBLE_QUOTE, BACKSLASH, BACKSLASH, "n", DOUBLE_QUOTE>>
  /\ res = VStr(<<BACKSLASH, "n">>)

(***************************************************************************)
(* SpecLoops: the line cursor under decode and under the four while loops  *)
(* of tone/decode/decoders.py.  A loop is entered on the parsed lines of a *)
(* short document with the cursor at any line and at any depth, which      *)
(* covers every nested entry; each iteration is two steps, the test of the *)
(* loop (cursor.at_end(), cursor.peek() and the break conditions) and its  *)
(* body.  res holds the loop's locals and the cursor.                      *)
(***************************************************************************)
MaxLoopLines == 2

LoopContents ==
  {<<"a", ":", " ", "1">>, <<"b", ":">>, <<"-", " ", "1">>,
   <<"-", " ", "a", ":", " ", "1">>, <<"[", "2", "]", ":">>, <<"1">>}

LoopLines == {Repeat(<<SPACE, SPACE>>, depth) \o content : depth \in 0..2, content \in LoopContents}

LoopDocs == UNION {[1..n -> LoopLines] : n \in 1..MaxLoopLines}

LoopOps == {"decode_object", "decode_list_array", "decode_tabular_array",
            "decode_object_from_list_item"}

(* the header a list or a tabular loop is entered with *)
LoopHeader(op) ==
  [key |-> <<>>, length |-> MaxLoopLines, delimiter |-> DEFAULT_DELIMITER,
   fields |-> IF op = "decode_tabular_array" THEN <<<<"a">>>> ELSE <<>>,
   has_fields |-> op = "decode_tabular_array", has_length_marker |-> FALSE]

LoopCalls ==
  [op : {"decode_run"}, lines : LoopDocs, strict : BOOLEAN, index : {0}, depth : {0}]
  \cup {c \in [op : LoopOps, lines : LoopDocs, strict : BOOLEAN,
               index : 0..MaxLoopLines, depth : 0..1] : c.index <= Len(c.lines)}

InitLoops ==
  /\ arg \in LoopCalls
  /\ text = Join(arg.lines, <<NEWLINE>>)
  /\ pc = IF arg.op = "decode_run" THEN "call" ELSE "loop"
  /\ res = IF arg.op = "decode_run" THEN VNull
           ELSE LoopEntry_(arg.op, text, arg.strict, arg.index)
  /\ NoAdapters

(* the depth the lines of the loop are at: base_depth for decode_object,   *)
(* item_depth and row_depth (base_depth + 1) for the arrays, followDepth   *)
(* (base_depth + 1) for decode_object_from_list_item                       *)
LoopDepth == IF arg.op = "decode_object" THEN arg.depth ELSE arg.depth + 1

(* the while condition and the two if's before the body: the loop goes on  *)
LoopContinues(cursor, line) ==
  /\ ~at_end(cursor)
  /\ arg.op \in {"decode_list_array", "decode_tabular_array"}
       => Len(res.val.xs) < LoopHeader(arg.op).length
  /\ ~(line.depth < LoopDepth)
  /\ line.depth = LoopDepth
  /\ arg.op = "decode_list_array" => StartsWith(line.content, LIST_ITEM_PREFIX)
  /\ arg.op = "decode_object_from_list_item" => ~StartsWith(line.content, LIST_ITEM_PREFIX)

(* while not cursor.at_end(): line = cursor.peek(); if ...: break *)
LoopTest ==
  /\ pc = "loop"
  /\ LET line == peek(res.cur)
     IN /\ res' = [res EXCEPT !.line = line]
        /\ pc' = IF LoopContinues(res.cur, line) THEN "body" ELSE "done"
  /\ UNCHANGED <<arg, text, adapters>>

(* the body of the loop of decode_object or decode_object_from_list_item *)
DecodeField ==
  /\ pc = "body" /\ arg.op \in {"decode_object", "decode_object_from_list_item"}
  /\ \E step \in {FieldLoopBody_(res, LoopDepth, DecodeOptions(arg.strict))} :
       res' = step.locals /\ pc' = step.next
  /\ UNCHANGED <<arg, text, adapters>>

(* the body of the loop of decode_list_array *)
DecodeItem ==
  /\ pc = "body" /\ arg.op = "decode_list_array"
  /\ \E step \in {ListArrayLoopBody_(LoopHeader(arg.op), res, LoopDepth,
                                      DecodeOptions(arg.strict))} :
       res' = step.locals /\ pc' = step.next
  /\ UNCHANGED <<arg, text, adapters>>

(* the body of the loop of decode_tabular_array *)
DecodeRow ==
  /\ pc = "body" /\ arg.op = "decode_tabular_array"
  /\ \E step \in {TabularArrayLoopBody_(LoopHeader(arg.op), res, LoopDepth,
                                         DecodeOptions(arg.strict))} :
       res' = step.locals /\ pc' = step.next
  /\ UNCHANGED <<arg, text, adapters>>

NextLoops == DecodeRun \/ LoopTest \/ DecodeField \/ DecodeItem \/ DecodeRow

(* the interpreter takes the next step of a call that has not returned;    *)
(* every step of NextLoops moves pc                                        *)
InterpreterStep == pc # "done" /\ pc' \in {"loop", "body", "done"}

SpecLoops == InitLoops /\ [][NextLoops]_vars /\ WF_pc(InterpreterStep)

(* the cursor is within 0..len(lines) *)
CursorInRange == pc # "call" => res.cur.index \in 0..Len(res.cur.lines)

(* C29: decode and every loop end; the cursor's index is never negative,   *)
(* never above the number of parsed lines and never decreases; the test of *)
(* a loop (at_end, peek) and current leave it where it is; an iteration    *)
(* that does not leave the loop advances the cursor by at least one line.  *)
DecoderTermination ==
  /\ <>(pc = "done")
  /\ []CursorInRange
  /\ [][pc # "call" => /\ res'.cur.index >= res.cur.index
                       /\ res'.cur.lines = res.cur.lines]_vars
  /\ [][pc = "loop" => res'.cur = res.cur]_vars
  /\ [][pc = "body" => (res'.cur.index > res.cur.index \/ pc' = "done")]_vars

(* decode_object has read two fields in two iterations and left the loop   *)
(* at the end of the lines                                                 *)
DecoderTerminationWitness ==
  /\ pc = "done" /\ arg.op = "decode_object" /\ arg.index = 0 /\ arg.depth = 0
  /\ Len(arg.lines) = 2
  /\ res.cur.index = 2
  /\ res.val = VObj(<<[k |-> <<"a">>, v |-> VInt(1)], [k |-> <<"b">>, v |-> VObj(<<>>)]>>)

(***************************************************************************)
(* SpecStream: encode_stream with the default options on a short stream,   *)
(* one step for every item the generator takes and one for the end of the  *)
(* stream; the chunks are then joined by newlines and decoded.  res holds  *)
(* the generator's locals and the chunks yielded so far.                   *)
(***************************************************************************)
MaxStreamLen == 3
MaxChunkSize == 3

StreamItems ==
  {VInt(0), VInt(1), VStr(<<"a">>),
   VObj(<<[k |-> <<"a">>, v |-> VInt(1)]>>), VObj(<<[k |-> <<"a">>, v |-> VInt(2)]>>),
   VObj(<<[k |-> <<"b">>, v |-> VInt(1)]>>), VArr(<<VInt(1)>>), VArr(<<>>)}

StreamCalls ==
  [op : {"encode_stream"},
   items : UNION {[1..n -> StreamItems] : n \in 1..MaxStreamLen},
   chunk_size : 1..MaxChunkSize]

InitStream ==
  /\ pc = "stream" /\ arg \in StreamCalls /\ text = <<>>
  /\ res = [pos |-> 0, buffer |-> <<>>, header_written |-> FALSE, chunks |-> <<>>,
            decoded |-> VNull]
  /\ NoAdapters

(* for item in items: buffer.append(item); if len(buffer) >= chunk_size:   *)
(* yield the chunk and empty the buffer                                    *)
StreamItem ==
  /\ pc = "stream" /\ res.pos < Len(arg.items)
  /\ LET buffer == Append(res.buffer, arg.items[res.pos + 1])
     IN res' = IF Len(buffer) >= arg.chunk_size
               THEN [res EXCEPT !.pos = @ + 1, !.buffer = <<>>, !.header_written = TRUE,
                                !.chunks = Append(@, StreamChunk_(buffer, DefaultEncodeOptions,
                                                                 res.header_written))]
               ELSE [res EXCEPT !.pos = @ + 1, !.buffer = buffer]
  /\ UNCHANGED <<pc, arg, text, adapters>>

(* the items are exhausted: if buffer: yield the remaining items *)
StreamEnd ==
  /\ pc = "stream" /\ res.pos = Len(arg.items)
  /\ res' = IF res.buffer # <<>>
            THEN [res EXCEPT !.buffer = <<>>,
                             !.chunks = Append(@, StreamChunk_(res.buffer, DefaultEncodeOptions,
                                                              res.header_written))]
            ELSE res
  /\ pc' = "streamed"
  /\ UNCHANGED <<arg, text, adapters>>

(* the chunks written in order with a newline between them, and decoded *)
DecodeChunks ==
  /\ pc = "streamed"
  /\ text' = Join(res.chunks, <<NEWLINE>>)
  /\ res' = [res EXCEPT !.decoded = decode_(text', DecodeOptions(TRUE))]
  /\ pc' = "done"
  /\ UNCHANGED <<arg, adapters>>

NextStream == StreamItem \/ StreamEnd \/ DecodeChunks

SpecStream == InitStream /\ [][NextStream]_vars

(* ceil(n / chunk_size) *)
ChunkCount(n, chunk_size) == (n + chunk_size - 1) \div chunk_size

(* the items of chunk k *)
ChunkItems(k) ==
  SubSeq(arg.items, (k - 1) * arg.chunk_size + 1, Min(k * arg.chunk_size, Len(arg.items)))

(* the first line of the first chunk and the lines after it *)
StreamHeaderLine == Head(Split(res.chunks[1], NEWLINE))
StreamFirstBody == Join(Tail(Split(res.chunks[1], NEWLINE)), <<NEWLINE>>)

(* every chunk holds the body lines of its own items, in input order, and  *)
(* only the first one has a header line above them                         *)
EachItemInOneChunk ==
  /\ Len(res.chunks) = ChunkCount(Len(arg.items), arg.chunk_size)
  /\ StartsWith(StreamHeaderLine, <<"[">>)
  /\ StreamFirstBody = _encode_items_body_(ChunkItems(1), DefaultEncodeOptions, TRUE)
  /\ \A k \in 2..Len(res.chunks) :
       res.chunks[k] = _encode_items_body_(ChunkItems(k), DefaultEncodeOptions, TRUE)

(* C30: encode_stream on n >= 1 items with chunk_size >= 1 yields          *)
(* ceil(n / chunk_size) chunks, each item in exactly one chunk in input    *)
(* order, a header in the first chunk only that ends with a single colon   *)
(* and declares length n, and the chunks joined by newlines decode to the  *)
(* list of the normalized items.                                           *)
StreamOneDocument ==
  pc = "done" =>
    /\ EachItemInOneChunk
    /\ EndsWith(StreamHeaderLine, <<":">>) /\ ~EndsWith(StreamHeaderLine, <<":", ":">>)
    /\ StartsWith(StreamHeaderLine, <<"[">> \o IntStr(Len(arg.items)) \o <<"]">>)
    /\ res.decoded = VArr(NormalizeItems(arg.items))

====
